---- MODULE Spec2Model ----
(***************************************************************************)
(* Model of the CCGT coherence pipeline: preprocess_text (preprocess.py),   *)
(* embed_sentences with its cache (embeddings.py), build_graph             *)
(* (graph_builder.py), the scorer (scorer.py) with its process-wide        *)
(* calibration window, the shared model instance used by score_text, and   *)
(* the evaluate and batch_evaluate endpoints (api/v1/evaluate.py).         *)
(*                                                                         *)
(* Floating point values are fixed-point integers: the float x is the      *)
(* integer round(x * SCALE).  NaN and +/-Infinity arise as values returned *)
(* by the Model Oracle and as entries of the inputs compute_heuristic_score*)
(* is called with on its own, and are kept as tagged records.              *)
(***************************************************************************)
EXTENDS Integers, Sequences, FiniteSets, TLC

\* ------------------------------------------------------------------------
\* Fixed-point arithmetic
\* ------------------------------------------------------------------------

\* number of decimal digits kept after the point
SCALE_DIGITS == 4

\* 1.0 in fixed point, 10^SCALE_DIGITS
SCALE == 10000

RECURSIVE Pow10(_)
Pow10(d) == IF d = 0 THEN 1 ELSE 10 * Pow10(d - 1)

\* ln(2) in fixed point
LN2 == 6931

Abs(x) == IF x < 0 THEN -x ELSE x

Min2(a, b) == IF a < b THEN a ELSE b

Max2(a, b) == IF a > b THEN a ELSE b

\* f itself, as an explicitly enumerated function (f @@ <<>> = f)
Strict(f) == f @@ <<>>

\* a / b rounded to the nearest integer (b # 0)
Div(a, b) ==
    IF b > 0 THEN (a + (b \div 2)) \div b
    ELSE ((-a) + ((-b) \div 2)) \div (-b)

\* fixed-point product of a, b >= 0, computed on the integer and fractional
\* parts so that no intermediate exceeds the result
MulAbs(a, b) ==
    (a \div SCALE) * b + (a % SCALE) * (b \div SCALE)
        + Div((a % SCALE) * (b % SCALE), SCALE)

\* 1 when a and b have the same sign, -1 otherwise
SameSign(a, b) == IF (a < 0) = (b < 0) THEN 1 ELSE -1

\* fixed-point product
Mul(a, b) == SameSign(a, b) * MulAbs(Abs(a), Abs(b))

RECURSIVE LongDiv(_, _, _)
\* (r * 10^digits) / b for 0 <= r < b, one decimal digit at a time
LongDiv(r, b, digits) ==
    IF digits = 1 THEN Div(r * 10, b)
    ELSE ((r * 10) \div b) * Pow10(digits - 1)
             + LongDiv((r * 10) % b, b, digits - 1)

\* fixed-point quotient of a >= 0 by b > 0
QuotAbs(a, b) == (a \div b) * SCALE + LongDiv(a % b, b, SCALE_DIGITS)

\* fixed-point quotient (b # 0)
Quot(a, b) == SameSign(a, b) * QuotAbs(Abs(a), Abs(b))

RECURSIVE SumTo(_, _)
\* sum of f[0] .. f[n-1]
SumTo(f, n) == IF n = 0 THEN 0 ELSE SumTo(f, n - 1) + f[n - 1]

RECURSIVE MinTo(_, _)
\* min of f[0] .. f[n-1], n >= 1
MinTo(f, n) == IF n = 1 THEN f[0] ELSE Min2(MinTo(f, n - 1), f[n - 1])

RECURSIVE MaxTo(_, _)
\* max of f[0] .. f[n-1], n >= 1
MaxTo(f, n) == IF n = 1 THEN f[0] ELSE Max2(MaxTo(f, n - 1), f[n - 1])

\* the series 1 + z2/3 + z2^2/5 + z2^3/7 + z2^4/9 in Horner form
AtanhSeries(z2) ==
    SCALE + Mul(z2, 3333 + Mul(z2, 2000 + Mul(z2, 1429 + Mul(z2, 1111))))

\* 2 * atanh(z) for |z| <= 1/3, by its power series up to z^9
Atanh2(z) == 2 * Mul(z, AtanhSeries(Mul(z, z)))

RECURSIVE Ln(_)
\* natural logarithm of x > 0: range reduction to [0.5, 1] by powers of two,
\* then ln(m) = 2 * atanh((m - 1) / (m + 1))
Ln(x) ==
    IF x > SCALE THEN Ln(Div(x, 2)) + LN2
    ELSE IF 2 * x < SCALE THEN Ln(2 * x) - LN2
    ELSE Atanh2(Quot(x - SCALE, x + SCALE))

RECURSIVE Exp(_)
\* e^y: range reduction by ln 2, then the power series up to y^6
Exp(y) ==
    IF y < -LN2 THEN Div(Exp(y + LN2), 2)
    ELSE IF y > LN2 THEN 2 * Exp(y - LN2)
    ELSE SCALE + Mul(y, SCALE + Mul(Div(y, 2), SCALE + Mul(Div(y, 3),
             SCALE + Mul(Div(y, 4), SCALE + Mul(Div(y, 5),
                 SCALE + Div(y, 6))))))

\* np.power(p, t) for p > 0
Power(p, t) == Exp(Mul(t, Ln(p)))

RECURSIVE SqrtIter(_, _, _)
\* the largest r in lo..hi with r * r <= n, by bisection
SqrtIter(n, lo, hi) ==
    IF lo >= hi THEN lo
    ELSE LET mid == (lo + hi + 1) \div 2
         IN  IF mid * mid <= n THEN SqrtIter(n, mid, hi)
             ELSE SqrtIter(n, lo, mid - 1)

\* square root of a fixed-point value v >= 0
Sqrt(v) == SqrtIter(v * SCALE, 0, 40000)

\* ------------------------------------------------------------------------
\* Settings (core/config.py)
\* ------------------------------------------------------------------------

ALPHA == 7000

BETA == 2000

GAMMA == 1000

\* build_graph's default discourse_boost and similarity_threshold
DEFAULT_BOOST == 1000

DEFAULT_THRESHOLD == 0

\* identify_disruptions' default top_k
DEFAULT_TOP_K == 5

\* deque(maxlen=100)
WINDOW_MAXLEN == 100

\* calibration is a no-op below this many samples
MIN_SAMPLES == 5

\* ------------------------------------------------------------------------
\* Sentences and the oracles the graph builder consumes
\* ------------------------------------------------------------------------

\* the sentences requests are made of
Corpus ==
    { "The cat sat.", "However, it rained.", "The cat slept.",
      "Therefore, dogs bark.", "Stocks fell sharply." }

\* Embedding Oracle: a pure function sentence -> unit vector
embed(s) ==
    CASE s = "The cat sat."          -> <<10000, 0, 0>>
      [] s = "However, it rained."   -> <<2000, 9798, 0>>
      [] s = "The cat slept."        -> <<6000, 1327, 7888>>
      [] s = "Therefore, dogs bark." -> <<-5000, 8660, 0>>
      [] OTHER                       -> <<-5000, -8660, 0>>

\* the vocabulary words matched as whole words in the lower-cased sentence
detect_discourse_markers(s) ==
    CASE s = "However, it rained."   -> {"however"}
      [] s = "Therefore, dogs bark." -> {"therefore"}
      [] OTHER                       -> {}

\* the vocabulary word the lower-cased sentence starts with, or "none"
StartsWith(s) ==
    CASE s = "However, it rained."   -> "however"
      [] s = "Therefore, dogs bark." -> "therefore"
      [] OTHER                       -> "none"

\* average |token.head.i - token.i| of the sentence's dependency parse
DepDistance(s) ==
    CASE s = "The cat sat."          -> 10000
      [] s = "However, it rained."   -> 15000
      [] s = "The cat slept."        -> 10000
      [] s = "Therefore, dogs bark." -> 15000
      [] OTHER                       -> 13333

\* embed_sentences: one row per sentence
embed_sentences(sentences, n) ==
    Strict([i \in 0..(n - 1) |-> embed(sentences[i])])

\* preprocess_text's marker list: detection applied per sentence
MarkersOf(sentences, n) ==
    Strict([i \in 0..(n - 1) |-> detect_discourse_markers(sentences[i])])

\* continuity[i]: 1.0 for the first sentence, 0.4 after a contrastive opener,
\* 0.7 after a causal opener, 0.8 otherwise
detect_connective_continuity(sentences, n) ==
    Strict([i \in 0..(n - 1) |->
        IF i = 0 THEN SCALE
        ELSE IF StartsWith(sentences[i]) \in
                    {"however", "nevertheless", "nonetheless", "conversely"}
             THEN 4000
        ELSE IF StartsWith(sentences[i]) \in
                    {"therefore", "thus", "hence", "accordingly"}
             THEN 7000
        ELSE 8000])

\* syntactic[i]: min-max normalised dependency distance, all 0.0 without parser
compute_syntactic_features(sentences, n, spacy) ==
    IF ~spacy \/ n = 0 THEN [i \in 0..(n - 1) |-> 0]
    ELSE LET scores == Strict([i \in 0..(n - 1) |-> DepDistance(sentences[i])])
             mn == MinTo(scores, n)
             mx == MaxTo(scores, n)
         IN  IF mx > mn
             THEN Strict([i \in 0..(n - 1) |-> Quot(scores[i] - mn, mx - mn)])
             ELSE [i \in 0..(n - 1) |-> 0]

\* embedding dimension D of the Embedding Oracle
EMBED_DIM == Len(embed("The cat sat."))

\* ------------------------------------------------------------------------
\* Graph Builder (pipeline/graph_builder.py)
\* ------------------------------------------------------------------------

RECURSIVE Dot(_, _, _)
\* sum of the first k component products of two vectors
Dot(e1, e2, k) == IF k = 0 THEN 0 ELSE Dot(e1, e2, k - 1) + e1[k] * e2[k]

\* embeddings are normalised, so cosine similarity is the dot product
cosine_similarity(emb1, emb2) == Div(Dot(emb1, emb2, Len(emb1)), SCALE)

RECURSIVE SeqSum(_)
SeqSum(q) == IF q = <<>> THEN 0 ELSE Head(q) + SeqSum(Tail(q))

\* scipy.special.entr: -x ln x, 0 at 0
Entr(x) == IF x <= 0 THEN 0 ELSE -Mul(x, Ln(x))

\* scipy.stats.entropy: normalise to sum 1, then the Shannon entropy (nats)
scipy_entropy(pk) ==
    LET total == SeqSum(pk)
        norm  == Strict([k \in 1..Len(pk) |-> Quot(pk[k], total)])
    IN  SeqSum(Strict([k \in 1..Len(pk) |-> Entr(norm[k])]))

\* np.var: mean squared deviation from the mean
Variance(q) ==
    LET mean == Div(SeqSum(q), Len(q))
    IN  Div(SeqSum(Strict([k \in 1..Len(q) |->
                              Mul(q[k] - mean, q[k] - mean)])), Len(q))

\* the variance-based temperature adjustment of enhanced mode
\* adjusted / adjusted_sum when the sum is positive, probs unchanged otherwise
Renormalise(adjusted, adjusted_sum, probs) ==
    IF adjusted_sum > 0
    THEN Strict([k \in 1..Len(probs) |-> Quot(adjusted[k], adjusted_sum)])
    ELSE probs

\* probs raised to the power temperature, renormalised
Sharpen(probs, temperature) ==
    LET adjusted == Strict([k \in 1..Len(probs) |->
                               Power(probs[k], temperature)])
    IN  Renormalise(adjusted, SeqSum(adjusted), probs)

\* the variance-based temperature adjustment of enhanced mode
compute_local_entropy_adjust(probs) ==
    Sharpen(probs, Quot(SCALE, SCALE + Variance(probs)))

\* the entropy of the positive entries of neighbor_sims / total
LocalEntropyOf(neighbor_sims, total, optimized) ==
    IF total = 0 THEN 0
    ELSE LET all   == Strict([k \in 1..Len(neighbor_sims) |->
                                 Quot(neighbor_sims[k], total)])
             probs == SelectSeq(all, LAMBDA x : x > 0)
         IN  IF Len(probs) = 0 THEN 0
             ELSE scipy_entropy(IF optimized
                                THEN compute_local_entropy_adjust(probs)
                                ELSE probs)

\* row node_idx of the similarity matrix with the node's own entry set to 0
NeighborSims(similarities, n, node_idx) ==
    Strict([k \in 1..n |-> IF k - 1 = node_idx THEN 0
                           ELSE similarities[<<node_idx, k - 1>>]])

\* local entropy of node node_idx over its similarity row
compute_local_entropy(similarities, n, node_idx, optimized) ==
    LocalEntropyOf(NeighborSims(similarities, n, node_idx),
                   SeqSum(NeighborSims(similarities, n, node_idx)), optimized)

\* variant: only the upper triangle is stored
SimilarityMatrixUpperOnly(embeddings, n) ==
    Strict([p \in (0..(n - 1)) \X (0..(n - 1)) |->
              IF p[1] = p[2] THEN SCALE
              ELSE IF p[1] > p[2] THEN 0
              ELSE cosine_similarity(embeddings[p[1]], embeddings[p[2]])])

\* the similarity matrix: every pair i < j stored in both triangles, then the
\* diagonal filled with 1.0
SimilarityMatrix(embeddings, n) ==
    Strict([p \in (0..(n - 1)) \X (0..(n - 1)) |->
              IF p[1] = p[2] THEN SCALE
              ELSE cosine_similarity(embeddings[Min2(p[1], p[2])],
                                     embeddings[Max2(p[1], p[2])])])

\* the local entropy of every node
LocalEntropies(similarity_matrix, n, optimized) ==
    Strict([i \in 0..(n - 1) |->
              compute_local_entropy(similarity_matrix, n, i, optimized)])

\* variant: the min-max normalisation is skipped
EntropyArrayUnnormalised(similarity_matrix, n, optimized) ==
    LocalEntropies(similarity_matrix, n, optimized)

\* (raw - min) / (max - min) in enhanced mode when the array is not empty and
\* max > min, raw otherwise
MinMaxNormalise(raw, n, optimized) ==
    IF optimized /\ n > 0 /\ MaxTo(raw, n) > MinTo(raw, n)
    THEN Strict([i \in 0..(n - 1) |->
                   Quot(raw[i] - MinTo(raw, n), MaxTo(raw, n) - MinTo(raw, n))])
    ELSE raw

\* per-node entropy, min-max normalised to [0,1] in enhanced mode when the
\* values are not all equal
EntropyArray(similarity_matrix, n, optimized) ==
    MinMaxNormalise(LocalEntropies(similarity_matrix, n, optimized), n,
                    optimized)

RECURSIVE PairsFrom(_, _, _)
\* the pairs (i, j), i < j < n, from (i, j) on, in the order of the nested loops
PairsFrom(i, j, n) ==
    IF i >= n - 1 THEN <<>>
    ELSE IF j >= n THEN PairsFrom(i + 1, i + 2, n)
    ELSE <<<<i, j>>>> \o PairsFrom(i, j + 1, n)

\* variant: the inner loop starts at i, so every node is paired with itself
PairsWithSelf(n) ==
    Strict([k \in 1..n |-> <<k - 1, k - 1>>]) \o PairsFrom(0, 1, n)

\* all unordered pairs in loop order
Pairs(n) == PairsFrom(0, 1, n)

\* variant: the boost needs a marker on both sentences of the pair
EdgeWeightBoostBoth(similarity_matrix, i, j, discourse_markers, continuity, syntactic, discourse_boost, optimized) ==
    IF optimized
    THEN Mul(ALPHA, similarity_matrix[<<i, j>>])
             + Mul(BETA, Div(continuity[i] + continuity[j], 2))
             + Mul(GAMMA, SCALE - Abs(syntactic[i] - syntactic[j]))
             + (IF discourse_markers[i] # {} /\ discourse_markers[j] # {}
                THEN discourse_boost ELSE 0)
    ELSE similarity_matrix[<<i, j>>]

\* variant: the blend and the boost are applied in baseline mode too
EdgeWeightAlwaysBlend(similarity_matrix, i, j, discourse_markers, continuity, syntactic, discourse_boost, optimized) ==
    Mul(ALPHA, similarity_matrix[<<i, j>>])
        + Mul(BETA, Div(continuity[i] + continuity[j], 2))
        + Mul(GAMMA, SCALE - Abs(syntactic[i] - syntactic[j]))
        + (IF discourse_markers[i] # {} \/ discourse_markers[j] # {}
           THEN discourse_boost ELSE 0)

\* the blended weight of the edge (i, j)
EdgeWeight(similarity_matrix, i, j, discourse_markers, continuity, syntactic, discourse_boost, optimized) ==
    LET base == similarity_matrix[<<i, j>>]
    IN  IF optimized
        THEN LET disc == IF discourse_markers[i] # {} \/ discourse_markers[j] # {}
                         THEN discourse_boost ELSE 0
                 cont == Div(continuity[i] + continuity[j], 2)
                 syn_align == SCALE - Abs(syntactic[i] - syntactic[j])
             IN  Mul(ALPHA, base) + Mul(BETA, cont) + Mul(GAMMA, syn_align) + disc
        ELSE base

RECURSIVE Both(_)
\* both directed arcs of each undirected pair
Both(pairs) ==
    IF pairs = <<>> THEN <<>>
    ELSE <<Head(pairs), <<Head(pairs)[2], Head(pairs)[1]>>>> \o Both(Tail(pairs))

RECURSIVE Twice(_)
\* each weight once per directed arc
Twice(ws) ==
    IF ws = <<>> THEN <<>> ELSE <<Head(ws), Head(ws)>> \o Twice(Tail(ws))

\* variant: the fallback loop stops one pair early
FallbackPairsShort(n) == Strict([k \in 1..(n - 2) |-> <<k - 1, k>>])

\* the consecutive-index path inserted when no pair clears the threshold
FallbackPairs(n) == Strict([k \in 1..(n - 1) |-> <<k - 1, k>>])

\* np.std: the population standard deviation, the squared deviations summed
\* at full precision before the root is taken
StdDev(q) ==
    LET mean == Div(SeqSum(q), Len(q))
    IN  SqrtIter(SeqSum(Strict([k \in 1..Len(q) |->
                                   (q[k] - mean) * (q[k] - mean)])) \div Len(q),
                 0, 4 * SCALE)

\* variant: the cap is mean + 1 * stddev
ClipWeightsOneSigma(edge_weights) ==
    IF edge_weights = <<>> THEN edge_weights
    ELSE LET cap == Div(SeqSum(edge_weights), Len(edge_weights))
                    + StdDev(edge_weights)
         IN  Strict([k \in 1..Len(edge_weights) |-> Min2(edge_weights[k], cap)])

\* cap every weight at mean + 3 * stddev of the weight list
ClipWeights(edge_weights) ==
    IF edge_weights = <<>> THEN edge_weights
    ELSE LET mean_w == Div(SeqSum(edge_weights), Len(edge_weights))
             std_w  == StdDev(edge_weights)
             cap    == mean_w + 3 * std_w
         IN  Strict([k \in 1..Len(edge_weights) |-> Min2(edge_weights[k], cap)])

\* node features: the embedding followed by the node's entropy
NodeFeatures(embeddings, entropy_array, n) ==
    Strict([i \in 0..(n - 1) |-> Append(embeddings[i], entropy_array[i])])

\* the pairs at or above the threshold in loop order
PairsAbove(similarity_matrix, n, similarity_threshold) ==
    SelectSeq(Pairs(n), LAMBDA p : similarity_matrix[p] >= similarity_threshold)

\* the edge list: the pairs above the threshold with their blended weights,
\* or the fallback path with the plain similarities when there is none
EdgeList(similarity_matrix, n, above, discourse_markers, continuity, syntactic, discourse_boost, optimized) ==
    IF above = <<>>
    THEN [pairs |-> FallbackPairs(n),
          weights |-> Strict([k \in 1..(n - 1) |->
                                 similarity_matrix[<<k - 1, k>>]])]
    ELSE [pairs |-> above,
          weights |-> Strict([k \in 1..Len(above) |->
                         EdgeWeight(similarity_matrix, above[k][1], above[k][2],
                                    discourse_markers, continuity, syntactic,
                                    discourse_boost, optimized)])]

\* the Data object and the two arrays build_graph returns
GraphResult(embeddings, n, similarity_matrix, entropy_array, edges) ==
    [raised |-> FALSE,
     x |-> NodeFeatures(embeddings, entropy_array, n),
     edge_index |-> Both(edges.pairs),
     edge_attr |-> ClipWeights(Twice(edges.weights)),
     similarity_matrix |-> similarity_matrix,
     entropy_array |-> entropy_array]

\* build_graph for two or more sentences, from the similarity matrix on
GraphOf(sentences, n, embeddings, similarity_matrix, discourse_markers, similarity_threshold, discourse_boost, optimized, spacy) ==
    GraphResult(embeddings, n, similarity_matrix,
        EntropyArray(similarity_matrix, n, optimized),
        EdgeList(similarity_matrix, n,
            PairsAbove(similarity_matrix, n, similarity_threshold),
            discourse_markers,
            IF optimized THEN detect_connective_continuity(sentences, n)
            ELSE [i \in 0..(n - 1) |-> SCALE],
            IF optimized THEN compute_syntactic_features(sentences, n, spacy)
            ELSE [i \in 0..(n - 1) |-> 0],
            discourse_boost, optimized))

\* variant: the empty-list check is missing
BuildGraphUnchecked(sentences, n, embeddings, discourse_markers, similarity_threshold, discourse_boost, optimized, spacy) ==
    GraphOf(sentences, n, embeddings, SimilarityMatrix(embeddings, n),
            discourse_markers, similarity_threshold, discourse_boost,
            optimized, spacy)

\* build_graph: raises on an empty sentence list, returns the single-node
\* result for one sentence, and the full construction otherwise
build_graph(sentences, n, embeddings, discourse_markers, similarity_threshold, discourse_boost, optimized, spacy) ==
    IF n = 0 THEN [raised |-> TRUE]
    ELSE IF n = 1
    THEN [raised |-> FALSE,
          x |-> embeddings,
          edge_index |-> <<>>,
          edge_attr |-> <<>>,
          similarity_matrix |-> [p \in {<<0, 0>>} |-> SCALE],
          entropy_array |-> [i \in {0} |-> 0]]
    ELSE GraphOf(sentences, n, embeddings, SimilarityMatrix(embeddings, n),
                 discourse_markers, similarity_threshold, discourse_boost,
                 optimized, spacy)

\* ------------------------------------------------------------------------
\* Scorer (pipeline/scorer.py)
\* ------------------------------------------------------------------------

\* clamp to [0, 1]
Clamp01(v) == Min2(Max2(v, 0), SCALE)

\* mean of the off-diagonal similarity entries
MeanOffDiagonal(similarity_matrix, n) ==
    Div(SeqSum(Strict([k \in 1..(n * n) |->
                  LET i == (k - 1) \div n
                      j == (k - 1) % n
                  IN  IF i = j THEN 0 ELSE similarity_matrix[<<i, j>>]])),
        n * (n - 1))

\* 0.7 * avg_similarity + 0.3 * (1 - normalised mean entropy), clamped to
\* [0, 1]
HeuristicBlend(avg_similarity, avg_entropy, max_possible_entropy) ==
    LET normalized_entropy == IF max_possible_entropy > 0
                              THEN Quot(avg_entropy, max_possible_entropy)
                              ELSE 0
        entropy_score == SCALE - Min2(normalized_entropy, SCALE)
    IN  Clamp01(Mul(7000, avg_similarity) + Mul(3000, entropy_score))

\* compute_heuristic_score: mean off-diagonal similarity (0.5 for one
\* sentence), mean entropy (0.0 when negative), normalised by ln(n + 1)
compute_heuristic_score(similarity_matrix, entropy_array, n) ==
    HeuristicBlend(IF n <= 1 THEN 5000
                   ELSE MeanOffDiagonal(similarity_matrix, n),
                   Max2(Div(SumTo(entropy_array, n), n), 0),
                   Ln((n + 1) * SCALE))

\* a float that may be NaN or an infinity: kind is "val" (the fixed-point
\* value v), "nan", "inf" or "ninf"
Float(v) == [kind |-> "val", v |-> v]

NaN == [kind |-> "nan", v |-> 0]

PosInf == [kind |-> "inf", v |-> 0]

NegInf == [kind |-> "ninf", v |-> 0]

\* np.mean of a non-empty sequence of floats: NaN when an entry is NaN or when
\* both infinities occur, an infinity when only that one occurs
FloatMean(q) ==
    IF \/ \E k \in 1..Len(q) : q[k].kind = "nan"
       \/ /\ \E k \in 1..Len(q) : q[k].kind = "inf"
          /\ \E k \in 1..Len(q) : q[k].kind = "ninf"
    THEN NaN
    ELSE IF \E k \in 1..Len(q) : q[k].kind = "inf" THEN PosInf
    ELSE IF \E k \in 1..Len(q) : q[k].kind = "ninf" THEN NegInf
    ELSE Float(Div(SeqSum(Strict([k \in 1..Len(q) |-> q[k].v])), Len(q)))

\* similarity_matrix[mask]: the off-diagonal entries in row-major order
OffDiagonal(similarity_matrix, n) ==
    LET cells == SelectSeq([k \in 1..(n * n) |-> <<(k - 1) \div n, (k - 1) % n>>],
                           LAMBDA c : c[1] # c[2])
    IN  Strict([k \in 1..Len(cells) |-> similarity_matrix[cells[k]]])

\* avg_similarity: 0.5 without off-diagonal entries or when their mean is NaN
AvgSimilarity(similarity_matrix, n) ==
    IF n <= 1 \/ FloatMean(OffDiagonal(similarity_matrix, n)).kind = "nan"
    THEN Float(5000)
    ELSE FloatMean(OffDiagonal(similarity_matrix, n))

\* variant: a negative mean entropy is kept
EntropyOrZeroKeepNegative(mean) ==
    IF mean.kind \in {"nan", "ninf"} THEN Float(0) ELSE mean

\* avg_entropy: 0.0 when the mean is NaN or negative
EntropyOrZero(mean) ==
    IF mean.kind \in {"nan", "ninf"} \/ (mean.kind = "val" /\ mean.v < 0)
    THEN Float(0)
    ELSE mean

\* min(max(0.7 * avg_similarity + 0.3 * entropy_score, 0.0), 1.0) on floats:
\* an infinite mean entropy gives min(normalized_entropy, 1.0) = 1.0 as a mean
\* entropy of max_possible_entropy does, and an infinite mean similarity is
\* clamped to the bound on its side
ClampedBlend(avg_similarity, avg_entropy, max_possible_entropy) ==
    IF avg_similarity.kind = "inf" THEN Float(SCALE)
    ELSE IF avg_similarity.kind = "ninf" THEN Float(0)
    ELSE Float(HeuristicBlend(avg_similarity.v,
                              IF avg_entropy.kind = "inf"
                              THEN max_possible_entropy ELSE avg_entropy.v,
                              max_possible_entropy))

\* the closing guard: 0.5 for a result that is NaN or not finite
FiniteOrNeutral(result) == IF result.kind = "val" THEN result ELSE Float(5000)

\* compute_heuristic_score on an n x n matrix and an n-entry array of floats
compute_heuristic_score_floats(similarity_matrix, entropy_array, n) ==
    IF n = 0 THEN Float(5000)
    ELSE FiniteOrNeutral(
             ClampedBlend(AvgSimilarity(similarity_matrix, n),
                          EntropyOrZero(FloatMean([k \in 1..n |->
                                                      entropy_array[k - 1]])),
                          Ln((n + 1) * SCALE)))

\* variant: a full window rejects the new entry instead of evicting the oldest
DequeAppendDropNewest(window, v) ==
    IF Len(window) >= 100 THEN window ELSE Append(window, v)

\* deque(maxlen).append: the oldest entry is dropped when the deque is full
DequeAppend(window, v) ==
    IF Len(window) >= WINDOW_MAXLEN THEN Append(Tail(window), v)
    ELSE Append(window, v)

\* the values held by a sequence
Range(q) == {q[k] : k \in 1..Len(q)}

\* min(q) and max(q) of a non-empty sequence
SeqMin(q) == CHOOSE m \in Range(q) : \A x \in Range(q) : m <= x

SeqMax(q) == CHOOSE m \in Range(q) : \A x \in Range(q) : m >= x

\* the blend 0.7 * raw + 0.3 * scaled of _calibrate_score
CalibrateBlend(raw_score, s_min, s_max) ==
    Mul(7000, raw_score) + Mul(3000, Quot(raw_score - s_min, s_max - s_min))

\* variant: the division is guarded by an epsilon in the denominator instead
\* of the max <= min test
CalibrateResultEpsilon(window, raw_score) ==
    IF Len(window) < MIN_SAMPLES THEN raw_score
    ELSE Mul(7000, raw_score)
         + Mul(3000, Quot(raw_score - SeqMin(window),
                          SeqMax(window) - SeqMin(window) + 1))

\* _calibrate_score on the window left by the append
CalibrateResult(window, raw_score) ==
    IF Len(window) < MIN_SAMPLES THEN raw_score
    ELSE LET s_min == SeqMin(window)
             s_max == SeqMax(window)
         IN  IF s_max <= s_min THEN raw_score
             ELSE CalibrateBlend(raw_score, s_min, s_max)

\* variant: the sample count, min and max are read before the push
CalibrateBeforePush(window, raw_score) ==
    [window |-> DequeAppend(window, raw_score),
     result |-> CalibrateResult(window, raw_score)]

\* _calibrate_score: push the raw score, then rescale against the window
calibrate_score(window, raw_score) ==
    LET appended == DequeAppend(window, raw_score)
    IN  [window |-> appended, result |-> CalibrateResult(appended, raw_score)]

\* the metric pairs are ranked by
DisruptionScore(similarity_matrix, entropy_array, i, j) ==
    LET avg_entropy == Div(entropy_array[i] + entropy_array[j], 2)
        weakness == SCALE - similarity_matrix[<<i, j>>]
    IN  Mul(avg_entropy, weakness)

RECURSIVE InsertAsc(_, _)
\* variant: the sort is ascending (reverse=True forgotten)
InsertAsc(sorted, d) ==
    IF sorted = <<>> THEN <<d>>
    ELSE IF Head(sorted).disruption_score <= d.disruption_score
         THEN <<Head(sorted)>> \o InsertAsc(Tail(sorted), d)
         ELSE <<d>> \o sorted

RECURSIVE InsertDesc(_, _)
\* insert d behind every entry whose score is at least d's (stable, descending)
InsertDesc(sorted, d) ==
    IF sorted = <<>> THEN <<d>>
    ELSE IF Head(sorted).disruption_score >= d.disruption_score
         THEN <<Head(sorted)>> \o InsertDesc(Tail(sorted), d)
         ELSE <<d>> \o sorted

RECURSIVE SortDesc(_)
\* list.sort(key=disruption_score, reverse=True)
SortDesc(q) ==
    IF q = <<>> THEN <<>>
    ELSE InsertDesc(SortDesc(SubSeq(q, 1, Len(q) - 1)), q[Len(q)])

\* variant: the 0.5 test comes before the 0.3 test
ReasonDriftFirst(sim) ==
    IF sim < 5000 THEN "Semantic drift"
    ELSE IF sim < 3000 THEN "Abrupt topic transition"
    ELSE "Weak discourse linkage"

\* the reason tag of a similarity value
Reason(sim) ==
    IF sim < 3000 THEN "Abrupt topic transition"
    ELSE IF sim < 5000 THEN "Semantic drift"
    ELSE "Weak discourse linkage"

\* identify_disruptions: rank all pairs i < j, report the first top_k
identify_disruptions(similarity_matrix, entropy_array, n, top_k) ==
    LET pairs == Pairs(n)
        disruptions ==
            Strict([k \in 1..Len(pairs) |->
                [from_idx |-> pairs[k][1],
                 to_idx |-> pairs[k][2],
                 similarity |-> similarity_matrix[pairs[k]],
                 disruption_score |->
                     DisruptionScore(similarity_matrix, entropy_array,
                                     pairs[k][1], pairs[k][2])]])
        sorted == SortDesc(disruptions)
        top == SubSeq(sorted, 1, Min2(top_k, Len(sorted)))
    IN  Strict([k \in 1..Len(top) |->
            [from_idx |-> top[k].from_idx,
             to_idx |-> top[k].to_idx,
             reason |-> Reason(top[k].similarity),
             score |-> top[k].similarity]])

\* what the Model Oracle's predict can do: raise, or return NaN, an infinity
\* or a sigmoid output
NoScore == [kind |-> "raise", v |-> 0]

ModelScores == {100}

ModelOutcomes ==
    {NoScore, [kind |-> "nan", v |-> 0], [kind |-> "inf", v |-> 0]}
        \cup {[kind |-> "val", v |-> m] : m \in ModelScores}

\* the model estimate fused with the heuristic (model_score is finite)
FusedScore(model_score, heuristic_score, entropy_array, n, optimized) ==
    IF optimized
    THEN LET mean_entropy == Div(SumTo(entropy_array, n), n)
         IN  Mul(8000, model_score) + Mul(2000, SCALE - mean_entropy)
    ELSE Mul(7000, model_score) + Mul(3000, heuristic_score)

\* variant: an absent or non-finite estimate is fused as the estimate 0
RawScoreAbsentAsZero(similarity_matrix, entropy_array, n, model_score, optimized) ==
    FusedScore(IF model_score.kind = "val" THEN model_score.v ELSE 0,
               compute_heuristic_score(similarity_matrix, entropy_array, n),
               entropy_array, n, optimized)

\* the score before calibration: the heuristic when the estimate is absent or
\* not finite, the fused score otherwise
RawScore(similarity_matrix, entropy_array, n, model_score, optimized) ==
    IF model_score.kind = "val"
    THEN FusedScore(model_score.v,
                    compute_heuristic_score(similarity_matrix, entropy_array, n),
                    entropy_array, n, optimized)
    ELSE compute_heuristic_score(similarity_matrix, entropy_array, n)

\* the returned score and report, with the window the call leaves behind:
\* final_score is calibrated (and pushed) in enhanced mode only
CoherenceResult(window, final_score, disruption_report, optimized) ==
    [window |-> IF optimized THEN calibrate_score(window, final_score).window
                ELSE window,
     raw |-> final_score,
     coherence_score |->
         IF optimized THEN calibrate_score(window, final_score).result
         ELSE final_score,
     disruption_report |-> disruption_report]

\* compute_coherence_score: raw score, calibration in enhanced mode, report
compute_coherence_score(window, similarity_matrix, entropy_array, n, model_score, optimized) ==
    CoherenceResult(window,
        RawScore(similarity_matrix, entropy_array, n, model_score, optimized),
        identify_disruptions(similarity_matrix, entropy_array, n,
                             DEFAULT_TOP_K),
        optimized)

\* ------------------------------------------------------------------------
\* Shared model instance (models/model.py)
\* ------------------------------------------------------------------------

\* CoherenceModel.__init__
NewModel == [initialized |-> FALSE, input_dim |-> 0]

\* CoherenceModel.initialize: a no-op when already built for input_dim
initialize(model, input_dim) ==
    IF model.initialized /\ model.input_dim = input_dim THEN model
    ELSE [initialized |-> TRUE, input_dim |-> input_dim]

\* the model instance after predict's lazy initialisation on graph x
ModelAfterPredict(model, width) ==
    IF ~model.initialized THEN initialize(model, width - 1) ELSE model

\* the forward pass multiplies x by an input_dim-wide projection: it raises
\* unless the feature width is the width the model was built for
ForwardOutcomes(model, width) ==
    IF model.input_dim = width THEN ModelOutcomes ELSE {NoScore}

\* number of feature columns of graph.x
FeatureWidth(g) == Len(g.x[0])

\* ------------------------------------------------------------------------
\* Texts and preprocessing (pipeline/preprocess.py)
\*
\* A text is the sequence of its pieces: sentences of the corpus and runs of
\* whitespace.  Every sentence of the corpus starts with a capital letter,
\* ends with a full stop and has single spaces after its punctuation, so
\* normalize_text leaves it as it is and both the spaCy and the regex
\* segmentation split a normalised text exactly between its sentences.
\* ------------------------------------------------------------------------

\* a single space
Blank1 == " "

\* a run of ten spaces
Blank10 == "          "

\* the whitespace pieces
Whitespace == {Blank1, Blank10}

\* len(piece)
PieceLen(piece) ==
    CASE piece = Blank1                  -> 1
      [] piece = Blank10                 -> 10
      [] piece = "The cat sat."          -> 12
      [] piece = "However, it rained."   -> 19
      [] piece = "The cat slept."        -> 14
      [] piece = "Therefore, dogs bark." -> 21
      [] OTHER                           -> 20

RECURSIVE TextLen(_)
\* len(text)
TextLen(text) ==
    IF Len(text) = 0 THEN 0
    ELSE PieceLen(Head(text)) + TextLen(Tail(text))

\* normalize_text: whitespace runs collapse to the single space between two
\* sentences and are stripped at both ends; the normalised text is held as
\* the sequence of its sentences
normalize_text(text) == SelectSeq(text, LAMBDA piece : piece \notin Whitespace)

\* segment_sentences on a normalised text: the stripped non-empty sentences,
\* by spaCy or by the regex fallback
segment_sentences(text) ==
    [i \in 0..(Len(text) - 1) |-> text[i + 1]]

\* len(sentences)
NumSentences(sentences) == Cardinality(DOMAIN sentences)

\* the returned pair (with its length)
PreprocessResult(sentences, marked) ==
    [sentences |-> sentences,
     n |-> NumSentences(sentences),
     discourse_markers |-> MarkersOf(marked, NumSentences(marked))]

\* variant: the markers are detected on the pieces of the text as given
PreprocessTextUnnormalised(text) ==
    PreprocessResult(segment_sentences(normalize_text(text)),
                     segment_sentences(text))

\* preprocess_text: normalise, segment, detect the markers of each sentence
preprocess_text(text) ==
    PreprocessResult(segment_sentences(normalize_text(text)),
                     segment_sentences(normalize_text(text)))

\* ------------------------------------------------------------------------
\* normalize_text character by character
\*
\* Here a text is the sequence of its characters, each a one-character
\* string; the no-break space U+00A0 is written NBSP.
\* ------------------------------------------------------------------------

\* the no-break space
NBSP == "nbsp"

\* the characters \s matches and strip() removes
IsSpace(c) == c \in {" ", "\t", "\n", NBSP}

\* the class [,;:]
ClauseMarks == {",", ";", ":"}

\* the class [.!?]
StopMarks == {".", "!", "?"}

\* text.replace('\u00A0', ' ')
ReplaceNbsp(text) ==
    [k \in 1..Len(text) |-> IF text[k] = NBSP THEN " " ELSE text[k]]

RECURSIVE SpaceRun(_, _)
\* the number of whitespace characters text has from position k on
SpaceRun(text, k) ==
    IF k <= Len(text) /\ IsSpace(text[k]) THEN 1 + SpaceRun(text, k + 1) ELSE 0

RECURSIVE CollapseFrom(_, _)
\* re.sub(r'\s+', ' ', text) from position k on
CollapseFrom(text, k) ==
    IF k > Len(text) THEN <<>>
    ELSE IF IsSpace(text[k])
         THEN <<" ">> \o CollapseFrom(text, k + SpaceRun(text, k))
         ELSE <<text[k]>> \o CollapseFrom(text, k + 1)

RECURSIVE SpaceMarksFrom(_, _, _)
\* re.sub(r"\s*([marks])\s*", r"\1 ", text) from position k on: the leftmost
\* match takes the whitespace before a mark, the mark and the whitespace
\* after it, and the scan goes on behind the match
SpaceMarksFrom(text, k, marks) ==
    IF k > Len(text) THEN <<>>
    ELSE IF k + SpaceRun(text, k) <= Len(text)
            /\ text[k + SpaceRun(text, k)] \in marks
         THEN <<text[k + SpaceRun(text, k)], " ">>
              \o SpaceMarksFrom(text,
                     k + SpaceRun(text, k) + 1
                       + SpaceRun(text, k + SpaceRun(text, k) + 1),
                     marks)
         ELSE <<text[k]>> \o SpaceMarksFrom(text, k + 1, marks)

RECURSIVE StripRight(_)
\* text without its trailing whitespace
StripRight(text) ==
    IF text # <<>> /\ IsSpace(text[Len(text)])
    THEN StripRight(SubSeq(text, 1, Len(text) - 1))
    ELSE text

\* text.strip()
Strip(text) ==
    StripRight(SubSeq(text, 1 + SpaceRun(text, 1), Len(text)))

\* normalize_text on the characters of a text
normalize_text_chars(text) ==
    Strip(SpaceMarksFrom(SpaceMarksFrom(CollapseFrom(ReplaceNbsp(text), 1),
                                        1, ClauseMarks),
                         1, StopMarks))

\* ------------------------------------------------------------------------
\* Embedding module (models/embeddings.py)
\* ------------------------------------------------------------------------

\* settings.BATCH_SIZE
BATCH_SIZE == 8

\* number of float16 values per unit at the magnitude a >= 0 (11 significant
\* bits)
Float16Steps(a) ==
    IF a >= SCALE THEN 1024
    ELSE IF 2 * a >= SCALE THEN 2048
    ELSE IF 4 * a >= SCALE THEN 4096
    ELSE IF 8 * a >= SCALE THEN 8192
    ELSE 16384

\* a >= 0 rounded to the nearest float16 value
Float16Abs(a, steps) == Div(Div(a * steps, SCALE) * SCALE, steps)

\* astype(np.float16)
Float16(x) ==
    IF x < 0 THEN -Float16Abs(-x, Float16Steps(-x))
    ELSE Float16Abs(x, Float16Steps(x))

\* model.encode on one batch followed by the float16 cast
batch_embeddings(batch) ==
    [k \in 1..Len(batch) |->
        [c \in 1..EMBED_DIM |-> Float16(embed(batch[k])[c])]]

RECURSIVE all_embeddings(_, _)
\* the batches of batch_size sentences encoded one after the other, stacked
all_embeddings(uncached_sentences, batch_size) ==
    IF Len(uncached_sentences) = 0 THEN <<>>
    ELSE batch_embeddings(SubSeq(uncached_sentences, 1,
                                 Min2(batch_size, Len(uncached_sentences))))
         \o all_embeddings(SubSeq(uncached_sentences, batch_size + 1,
                                  Len(uncached_sentences)), batch_size)

\* the indices 0 .. n-1 in order
Indices(n) == [k \in 1..n |-> k - 1]

\* the indices whose sentence the cache has an embedding for
cached_embeddings(sentences, n, cache) ==
    {i \in 0..(n - 1) : sentences[i] \in DOMAIN cache}

\* the indices whose sentence the cache has no embedding for, ascending
uncached_indices(sentences, n, cache) ==
    SelectSeq(Indices(n), LAMBDA i : sentences[i] \notin DOMAIN cache)

\* [sentences[i] for i in uncached_indices]
uncached_sentences(sentences, idxs) ==
    [k \in 1..Len(idxs) |-> sentences[idxs[k]]]

\* embeddings_list after the cached embeddings are placed; <<>> is None
CachedRows(sentences, n, cache) ==
    [i \in 0..(n - 1) |->
        IF sentences[i] \in DOMAIN cache THEN cache[sentences[i]] ELSE <<>>]

RECURSIVE PlaceByPosition(_, _, _, _)
\* variant: the k-th new embedding is placed at index k - 1
PlaceByPosition(embeddings_list, idxs, embs, k) ==
    IF k = 0 THEN embeddings_list
    ELSE [PlaceByPosition(embeddings_list, idxs, embs, k - 1)
              EXCEPT ![k - 1] = embs[k]]

RECURSIVE Place(_, _, _, _)
\* for idx, embedding in zip(uncached_indices, uncached_embeddings):
\*     embeddings_list[idx] = embedding        (the first k pairs)
Place(embeddings_list, idxs, embs, k) ==
    IF k = 0 THEN embeddings_list
    ELSE [Place(embeddings_list, idxs, embs, k - 1)
              EXCEPT ![idxs[k]] = embs[k]]

\* EmbeddingCache.set
CacheSet(cache, text, embedding) ==
    [t \in (DOMAIN cache) \cup {text} |->
        IF t = text THEN embedding ELSE cache[t]]

RECURSIVE CacheSetAll(_, _, _, _, _)
\* _embedding_cache.set(sentences[idx], embedding) for the first k pairs
CacheSetAll(cache, sentences, idxs, embs, k) ==
    IF k = 0 THEN cache
    ELSE CacheSet(CacheSetAll(cache, sentences, idxs, embs, k - 1),
                  sentences[idxs[k]], embs[k])

\* a vector divided by the norm (a zero norm counts as 1.0)
DivideByNorm(v, norm) ==
    [c \in 1..Len(v) |-> Quot(v[c], IF norm = 0 THEN SCALE ELSE norm)]

\* embeddings / np.linalg.norm(embeddings, ord=2, axis=1), one row
L2Normalise(v) == DivideByNorm(v, SqrtIter(Dot(v, v, Len(v)), 0, 4 * SCALE))

\* the stacked rows; in optimized mode cast to float32 (exact for float16
\* values) and renormalised
StackRows(embeddings_list, n, optimized) ==
    Strict([i \in 0..(n - 1) |->
        IF optimized THEN L2Normalise(embeddings_list[i])
        ELSE embeddings_list[i]])

\* the rows and the cache once the new embeddings embs are placed
PlacedResult(sentences, n, cache, idxs, embs, optimized) ==
    [embeddings |->
         StackRows(Place(CachedRows(sentences, n, cache), idxs, embs,
                         Min2(Len(idxs), Len(embs))), n, optimized),
     cache |-> CacheSetAll(cache, sentences, idxs, embs,
                           Min2(Len(idxs), Len(embs)))]

\* the result once the uncached indices are known
EncodedResult(sentences, n, cache, idxs, batch_size, optimized) ==
    PlacedResult(sentences, n, cache, idxs,
                 all_embeddings(uncached_sentences(sentences, idxs),
                                batch_size), optimized)

\* embed_sentences with the process-wide cache: the returned array and the
\* cache afterwards
EmbedSentencesResult(sentences, n, cache, batch_size, optimized) ==
    IF n = 0 THEN [embeddings |-> <<>>, cache |-> cache]
    ELSE EncodedResult(sentences, n, cache,
                       uncached_indices(sentences, n, cache), batch_size,
                       optimized)

\* ------------------------------------------------------------------------
\* Endpoints (api/v1/evaluate.py, schemas.py)
\*
\* The process-wide state is the record ps = [window, history, model, cache].
\* A pipeline run on one text ends in a stage: "too_few" (no sentence),
\* "embed_failed", "build_failed" (the step raised) or "scored".
\* ------------------------------------------------------------------------

\* EvaluateRequest.text: min_length
MIN_LENGTH == 10

\* the longest text echoed whole in a batch item
SNIPPET_LENGTH == 50

\* a run that stopped before a score
Stopped(stage, ps, build_calls) ==
    [stage |-> stage, ps |-> ps, score |-> 0, report |-> <<>>,
     build_calls |-> build_calls]

\* a run that returned from score_text with the result r
Scored(ps, cache, model, r, n, optimized) ==
    [stage |-> "scored",
     ps |-> [window |-> r.window,
             history |-> IF optimized THEN Append(ps.history, r.raw)
                         ELSE ps.history,
             model |-> model,
             cache |-> cache],
     score |-> r.coherence_score,
     report |-> r.disruption_report,
     build_calls |-> <<n>>]

\* score_text: one outcome per estimate the forward pass can give
ScoreOutcomes(ps, cache, built, n, model, optimized) ==
    { Scored(ps, cache, model,
             compute_coherence_score(ps.window, built.similarity_matrix,
                                     built.entropy_array, n, ms, optimized),
             n, optimized) : ms \in ForwardOutcomes(model, Len(built.x[0])) }

\* the steps after build_graph returned or raised
BuildOutcomes(ps, cache, built, n, optimized) ==
    IF built.raised
    THEN {Stopped("build_failed", [ps EXCEPT !.cache = cache], <<n>>)}
    ELSE ScoreOutcomes(ps, cache, built, n,
                       ModelAfterPredict(ps.model, Len(built.x[0])), optimized)

\* build_graph(sentences, embeddings, discourse_markers) with its defaults,
\* with and without spaCy, and the steps after it
EmbeddedOutcomes(ps, pre, embedded, optimized) ==
    UNION { BuildOutcomes(ps, embedded.cache,
                          build_graph(pre.sentences, pre.n,
                                      embedded.embeddings,
                                      pre.discourse_markers,
                                      DEFAULT_THRESHOLD, DEFAULT_BOOST,
                                      optimized, spacy),
                          pre.n, optimized) : spacy \in BOOLEAN }

\* embed_sentences(sentences): it can raise only when it has to load or run
\* the encoder, that is when some sentence is not cached
EmbedOutcomes(ps, pre, optimized) ==
    (IF Len(uncached_indices(pre.sentences, pre.n, ps.cache)) > 0
     THEN {Stopped("embed_failed", ps, <<>>)} ELSE {})
    \cup EmbeddedOutcomes(ps, pre,
                          EmbedSentencesResult(pre.sentences, pre.n, ps.cache,
                                               BATCH_SIZE, optimized),
                          optimized)

\* variant: only a negative sentence count is too few
TooFewNegative(n) == n < 0

\* len(sentences) < 1
TooFew(n) == n < 1

\* the steps after preprocess_text returned pre
PreprocessedOutcomes(ps, pre, optimized) ==
    IF TooFew(pre.n) THEN {Stopped("too_few", ps, <<>>)}
    ELSE EmbedOutcomes(ps, pre, optimized)

\* preprocess, embed, build the graph, score: every way the run can end
PipelineOutcomes(ps, text, optimized) ==
    PreprocessedOutcomes(ps, preprocess_text(text), optimized)

\* variant: the float is rounded to the nearest integer
IntRound(x) == Div(x, SCALE)

\* int(x): the float truncated towards zero
IntTrunc(x) == IF x >= 0 THEN x \div SCALE ELSE -((-x) \div SCALE)

\* an error response
ErrorResponse(endpoint, status) == [endpoint |-> endpoint, status |-> status]

\* EvaluateResponse(...): the percent clamped to [0, 100]; a score outside
\* [0, 1] fails the schema's ge=0, le=1 and becomes a 500.  The score is a
\* number here (score_text never returns NaN or an infinity in this model),
\* so the 0.5 replacement of lines 88-90 does not act.
BuildResponse(score, report) ==
    IF score < 0 \/ score > SCALE THEN ErrorResponse("evaluate", 500)
    ELSE [endpoint |-> "evaluate", status |-> 200,
          coherence_score |-> score,
          coherence_percent |-> Max2(0, Min2(100, IntTrunc(score * 100))),
          disruption_report |-> report]

\* the response of evaluate_text for a run that ended as run; the graph
\* for visualisation is built after the response and may raise.  Its
\* predict call finds the model initialised and changes nothing.
RunResponse(run, visualize, viz_ok) ==
    IF run.stage = "too_few" THEN ErrorResponse("evaluate", 400)
    ELSE IF run.stage # "scored" THEN ErrorResponse("evaluate", 500)
    ELSE IF visualize /\ ~viz_ok THEN ErrorResponse("evaluate", 500)
    ELSE BuildResponse(run.score, run.report)

\* text[:50] + "..." if len(text) > 50 else text
Snippet(text) == [of |-> text, cut |-> TextLen(text) > SNIPPET_LENGTH]

\* the BatchEvaluateItem of a text whose run ended as run
BatchItem(text, run) ==
    [text |-> Snippet(text),
     coherence_score |-> IF run.stage = "scored" THEN run.score ELSE 0,
     coherence_percent |->
         IF run.stage = "scored" THEN IntTrunc(run.score * 100) ELSE 0]

\* variant: a text without a sentence is skipped without an item
AppendItemSkipEmpty(results, text, run) ==
    IF run.stage = "too_few" THEN results
    ELSE Append(results, BatchItem(text, run))

\* results.append(BatchEvaluateItem(...))
AppendItem(results, text, run) == Append(results, BatchItem(text, run))

\* the loop state after one more text
BatchAfter(acc, text, run) ==
    [ps |-> run.ps,
     results |-> AppendItem(acc.results, text, run),
     stages |-> Append(acc.stages, run.stage),
     build_calls |-> acc.build_calls \o run.build_calls]

RECURSIVE BatchOutcomes(_, _, _, _)
\* for text in request.texts: every way the loop over the first k texts
\* can end
BatchOutcomes(ps, batch, k, optimized) ==
    IF k = 0
    THEN {[ps |-> ps, results |-> <<>>, stages |-> <<>>, build_calls |-> <<>>]}
    ELSE UNION { { BatchAfter(acc, batch[k], run) :
                       run \in PipelineOutcomes(acc.ps, batch[k], optimized) } :
                 acc \in BatchOutcomes(ps, batch, k - 1, optimized) }

\* BatchEvaluateResponse(results=results, total_processed=len(results))
BatchResponse(results) ==
    [endpoint |-> "batch_evaluate", status |-> 200, results |-> results,
     total_processed |-> Len(results)]

\* ------------------------------------------------------------------------
\* State
\* ------------------------------------------------------------------------

VARIABLES
    OPTIMIZED_MODE,       \* settings.OPTIMIZED_MODE, fixed for the process
    score_window,         \* _score_window, the rolling calibration deque
    history,              \* every raw score pushed into the window, in order
    model_instance,       \* _model_instance
    pc,                   \* "idle", "built", "raised", "scored" or "ranked"
    requests,             \* number of scoring calls made so far
    sentences,            \* the sentences of the current request
    num_sentences,        \* len(sentences)
    similarity_threshold, \* build_graph's similarity_threshold argument
    graph,                \* build_graph's result: node features, arcs, weights
    similarity_matrix,    \* build_graph's similarity matrix
    entropy_array,        \* build_graph's entropy array
    model_score,          \* what the Model Oracle did in the last scoring call
    top_k,                \* identify_disruptions' top_k argument
    coherence_score,      \* the score returned by the last scoring call
    disruption_report,    \* the report returned by the last call
    threads,              \* the position and locals of each thread that is
                          \* inside _calibrate_score
    runs,                 \* the matrix, entropy array and heuristic score of
                          \* every scored sentence list
    embedding_cache,      \* _embedding_cache.cache: sentence -> embedding
    embeddings,           \* what the last embed_sentences call returned
    cached_indices,       \* the indices the last embed_sentences call found
                          \* in the cache
    discourse_markers,    \* the marker list of the last preprocess_text call
    texts,                \* the texts of the last endpoint request
    response,             \* the last endpoint response
    stages,               \* the stage the run on each of these texts ended in
    build_calls,          \* the sentence counts build_graph was called with
                          \* while the last endpoint request was served
    normalized,           \* what the last normalize_text call returned
    heuristic_score       \* what the last compute_heuristic_score call returned

vars == <<OPTIMIZED_MODE, score_window, history, model_instance, pc, requests,
          sentences, num_sentences, similarity_threshold, graph,
          similarity_matrix, entropy_array, model_score, top_k,
          coherence_score, disruption_report, threads, runs,
          embedding_cache, embeddings, cached_indices, discourse_markers,
          texts, response, stages, build_calls, normalized, heuristic_score>>

\* the results of the functions called on their own
result_vars == <<normalized, heuristic_score>>

\* the variables of one request's pipeline results
request_vars == <<sentences, num_sentences, similarity_threshold, graph,
                  similarity_matrix, entropy_array>>

\* the variables written by a scoring call
score_vars == <<model_score, top_k, coherence_score, disruption_report>>

\* the variables written by the embedding module and the endpoints only
endpoint_vars ==
    <<embedding_cache, embeddings, cached_indices, discourse_markers, texts,
      response, stages, build_calls>>

\* model bounds
MaxSentences == 4

MaxRequests == 5

FifoRequests == 102

ConcCalls == 6

\* worker threads that may run _calibrate_score side by side
Threads == {1, 2}

\* the graph of no request
NoGraph == [x |-> <<>>, edge_index |-> <<>>, edge_attr |-> <<>>]

\* no response yet
NoResponse == [endpoint |-> "none", status |-> 0]

\* a thread outside _calibrate_score
IdleThread ==
    [pc |-> "idle", raw_score |-> 0, s_min |-> 0, s_max |-> 0,
     at_append |-> 0, at_min |-> 0, at_max |-> 0, result |-> 0]

Init ==
    /\ OPTIMIZED_MODE \in BOOLEAN
    /\ score_window = <<>>
    /\ history = <<>>
    /\ model_instance = NewModel
    /\ pc = "idle"
    /\ requests = 0
    /\ sentences = <<>>
    /\ num_sentences = 0
    /\ similarity_threshold = DEFAULT_THRESHOLD
    /\ graph = NoGraph
    /\ similarity_matrix = <<>>
    /\ entropy_array = <<>>
    /\ model_score = NoScore
    /\ top_k = DEFAULT_TOP_K
    /\ coherence_score = 0
    /\ disruption_report = <<>>
    /\ threads = [t \in Threads |-> IdleThread]
    /\ runs = {}
    /\ embedding_cache = <<>>
    /\ embeddings = <<>>
    /\ cached_indices = {}
    /\ discourse_markers = <<>>
    /\ texts = <<>>
    /\ response = NoResponse
    /\ stages = <<>>
    /\ build_calls = <<>>
    /\ normalized = <<>>
    /\ heuristic_score = 0

\* a paragraph of n copies of one sentence
Repeated(s, n) == [i \in 0..(n - 1) |-> s]

\* a one-sentence paragraph
OneSentence == Repeated("The cat sat.", 1)

\* a paragraph of identical sentences
SameSentences == Repeated("The cat sat.", MaxSentences)

\* the paragraphs scored against the calibration window
ScoredParagraphs == {OneSentence, SameSentences}

\* every paragraph of 1..MaxSentences corpus sentences
AllParagraphs ==
    UNION { [0..(n - 1) -> Corpus] : n \in 1..MaxSentences }

\* the thresholds build_graph is called with
Thresholds == {DEFAULT_THRESHOLD, 5000}

\* the top_k values identify_disruptions is called with
TopKs == {0, 1, 2, DEFAULT_TOP_K}

\* number of sentences of a paragraph
ParagraphLen(para) == Cardinality(DOMAIN para)

\* build_graph on a paragraph, its embeddings and its detected markers
BuildGraphCall(para, threshold, spacy) ==
    \E n \in {ParagraphLen(para)} :
    \E built \in {build_graph(para, n, embed_sentences(para, n),
                              MarkersOf(para, n), threshold, DEFAULT_BOOST,
                              OPTIMIZED_MODE, spacy)} :
        /\ sentences' = para
        /\ num_sentences' = n
        /\ similarity_threshold' = threshold
        /\ IF built.raised
           THEN /\ pc' = "raised"
                /\ UNCHANGED <<graph, similarity_matrix, entropy_array>>
           ELSE /\ graph' = [x |-> built.x, edge_index |-> built.edge_index,
                             edge_attr |-> built.edge_attr]
                /\ similarity_matrix' = built.similarity_matrix
                /\ entropy_array' = built.entropy_array
                /\ pc' = "built"
        /\ UNCHANGED <<result_vars, OPTIMIZED_MODE, score_window, history, model_instance,
                       requests, score_vars, threads, runs, endpoint_vars>>

\* the build step of a scoring request
BuildGraph ==
    /\ pc # "built"
    /\ requests < MaxRequests
    /\ \E para \in ScoredParagraphs, spacy \in BOOLEAN :
           BuildGraphCall(para, DEFAULT_THRESHOLD, spacy)

\* variant: the heuristic score is smoothed against the calibration window
HeuristicOfCalibrated ==
    calibrate_score(score_window,
        compute_heuristic_score(similarity_matrix, entropy_array,
                                num_sentences)).result

\* the heuristic-only score of the current request
HeuristicOf ==
    compute_heuristic_score(similarity_matrix, entropy_array, num_sentences)

\* the effect of compute_coherence_score with the estimate ms
Score(ms) ==
    \E r \in {compute_coherence_score(score_window, similarity_matrix,
                                       entropy_array, num_sentences, ms,
                                       OPTIMIZED_MODE)} :
        /\ score_window' = r.window
        /\ history' = IF OPTIMIZED_MODE THEN Append(history, r.raw) ELSE history
        /\ coherence_score' = r.coherence_score
        /\ disruption_report' = r.disruption_report
        /\ top_k' = DEFAULT_TOP_K
        /\ model_score' = ms
        /\ requests' = requests + 1
        /\ pc' = "scored"
        /\ runs' = runs \cup {[sentences |-> sentences,
                                similarity_matrix |-> similarity_matrix,
                                entropy_array |-> entropy_array,
                                heuristic_score |-> HeuristicOf]}
        /\ UNCHANGED <<result_vars, OPTIMIZED_MODE, request_vars, threads, endpoint_vars>>

\* score_text: query the shared model, treat a failure as an absent estimate
ScoreText ==
    /\ pc = "built"
    /\ \E width \in {FeatureWidth(graph)} :
       \E m \in {ModelAfterPredict(model_instance, width)} :
           /\ model_instance' = m
           /\ \E ms \in ForwardOutcomes(m, width) : Score(ms)

\* compute_coherence_score called with a model estimate supplied by the caller
ComputeCoherenceScore ==
    /\ pc = "built"
    /\ \E ms \in ModelOutcomes : Score(ms)
    /\ UNCHANGED model_instance

Next == BuildGraph \/ ScoreText \/ ComputeCoherenceScore

Spec == Init /\ [][Next]_vars

\* ------------------------------------------------------------------------
\* The graph builder and the disruption ranking called on their own
\* ------------------------------------------------------------------------

\* build_graph on any sentence list, the empty one included, with any
\* threshold and parser availability
BuildGraphAny ==
    /\ pc = "idle"
    /\ \E para \in AllParagraphs \cup {<<>>}, threshold \in Thresholds,
          spacy \in BOOLEAN :
           BuildGraphCall(para, threshold, spacy)

\* identify_disruptions on the last build_graph result
IdentifyDisruptions ==
    /\ pc = "built"
    /\ \E k \in TopKs :
           /\ top_k' = k
           /\ disruption_report' =
                  identify_disruptions(similarity_matrix, entropy_array,
                                       num_sentences, k)
    /\ pc' = "ranked"
    /\ UNCHANGED <<result_vars, OPTIMIZED_MODE, score_window, history, model_instance,
                   requests, request_vars, model_score, coherence_score,
                   threads, runs, endpoint_vars>>

NextGraph == BuildGraphAny \/ IdentifyDisruptions

SpecGraph == Init /\ [][NextGraph]_vars

\* ------------------------------------------------------------------------
\* A long run of requests through the calibration window
\* ------------------------------------------------------------------------

\* requests of one-sentence paragraphs followed by multi-sentence ones
BuildGraphFifo ==
    /\ pc # "built"
    /\ requests < FifoRequests
    /\ \E para \in (IF num_sentences <= 1 THEN ScoredParagraphs
                    ELSE {SameSentences}) :
           BuildGraphCall(para, DEFAULT_THRESHOLD, FALSE)

InitFifo == Init /\ OPTIMIZED_MODE

NextFifo == BuildGraphFifo \/ ScoreText

SpecFifo == InitFifo /\ [][NextFifo]_vars

\* ------------------------------------------------------------------------
\* One request repeated against a fresh calibration window
\* ------------------------------------------------------------------------

\* number of times the request is repeated
MaxRepeats == 7

\* the paragraphs that are repeated
RepeatParagraphs ==
    {para \in AllParagraphs : ParagraphLen(para) <= 2} \cup ScoredParagraphs

\* build_graph on the first paragraph, and on the same one from then on
BuildGraphRepeat ==
    /\ pc # "built"
    /\ requests < MaxRepeats
    /\ \E para \in (IF requests = 0 THEN RepeatParagraphs ELSE {sentences}) :
           BuildGraphCall(para, DEFAULT_THRESHOLD, FALSE)

\* compute_coherence_score with the first call's model estimate on every call
ScoreRepeat ==
    /\ pc = "built"
    /\ \E ms \in (IF requests = 0 THEN ModelOutcomes ELSE {model_score}) :
           Score(ms)
    /\ UNCHANGED model_instance

NextRepeat == BuildGraphRepeat \/ ScoreRepeat

SpecRepeat == Init /\ [][NextRepeat]_vars

\* ------------------------------------------------------------------------
\* build_graph and identify_disruptions on embeddings given as vectors
\* ------------------------------------------------------------------------

\* largest number of embeddings drawn freely
MaxDrawn == 3

\* largest number of embeddings with one pair of equal ones
MaxNodes == 6

\* the k-th unit vector of dimension dim
Unit(k, dim) == [j \in 1..dim |-> IF j = k THEN SCALE ELSE 0]

\* the unit vector of dimension 2 whose cosine with Unit(1, 2) is c
Angled(c) == <<c, Sqrt(Mul(SCALE - c, SCALE + c))>>

\* the cosines of the drawn vectors: the reason thresholds 0.3 and 0.5, a
\* value between them, a negative one, 0 and 1
Cosines == {3000, 4000, 5000, -5000, 0, SCALE}

\* every list of 1..MaxDrawn drawn vectors
DrawnLayouts ==
    UNION { [0..(n - 1) -> {Angled(c) : c \in Cosines}] : n \in 1..MaxDrawn }

\* n embeddings: the first two equal, all others orthogonal to every other
OutlierLayout(n) == [i \in 0..(n - 1) |-> Unit(IF i = 0 THEN 1 ELSE i, n)]

\* the embedding matrices build_graph is called with
VectorLayouts == DrawnLayouts \cup {OutlierLayout(n) : n \in 2..MaxNodes}

\* n sentences, every second one starting with a discourse marker
Alternating(n) ==
    [i \in 0..(n - 1) |-> IF i % 2 = 1 THEN "However, it rained."
                          ELSE "The cat sat."]

\* build_graph called with an embedding matrix of the caller's choice
BuildGraphVectors ==
    /\ pc = "idle"
    /\ \E layout \in VectorLayouts, threshold \in Thresholds, marked \in BOOLEAN :
       \E n \in {ParagraphLen(layout)} :
       \E para \in {IF marked THEN Alternating(n)
                    ELSE Repeated("The cat sat.", n)} :
       \E built \in {build_graph(para, n, layout, MarkersOf(para, n), threshold,
                                 DEFAULT_BOOST, OPTIMIZED_MODE, FALSE)} :
           /\ sentences' = para
           /\ num_sentences' = n
           /\ similarity_threshold' = threshold
           /\ embeddings' = layout
           /\ graph' = [x |-> built.x, edge_index |-> built.edge_index,
                        edge_attr |-> built.edge_attr]
           /\ similarity_matrix' = built.similarity_matrix
           /\ entropy_array' = built.entropy_array
           /\ pc' = "built"
    /\ UNCHANGED <<result_vars, OPTIMIZED_MODE, score_window, history, model_instance,
                   requests, score_vars, threads, runs, embedding_cache,
                   cached_indices, discourse_markers, texts, response, stages,
                   build_calls>>

NextVectors == BuildGraphVectors \/ IdentifyDisruptions

SpecVectors == Init /\ [][NextVectors]_vars

\* ------------------------------------------------------------------------
\* _calibrate_score run by several threads, one statement at a time
\* ------------------------------------------------------------------------

\* the one-sentence request's raw scores, the scores the threads push
ConcScores ==
    { RawScore([p \in {<<0, 0>>} |-> SCALE], [i \in {0} |-> 0], 1, ms, TRUE) :
          ms \in ModelOutcomes }

\* line 74: _score_window.append(raw_score)
CalAppend(t) ==
    /\ threads[t].pc \in {"idle", "done"}
    /\ Len(history) < ConcCalls
    /\ \E raw \in ConcScores :
           /\ score_window' = DequeAppend(score_window, raw)
           /\ history' = Append(history, raw)
           /\ threads' = [threads EXCEPT ![t] =
                  [IdleThread EXCEPT !.pc = "len", !.raw_score = raw,
                                     !.at_append = Len(history) + 1]]
    /\ UNCHANGED <<result_vars, OPTIMIZED_MODE, model_instance, pc, requests, request_vars,
                   score_vars, runs, endpoint_vars>>

\* lines 75-76: return raw_score while the window has fewer than 5 samples
CalLen(t) ==
    /\ threads[t].pc = "len"
    /\ threads' = [threads EXCEPT ![t] =
           IF Len(score_window) < MIN_SAMPLES
           THEN [@ EXCEPT !.pc = "done", !.result = threads[t].raw_score]
           ELSE [@ EXCEPT !.pc = "min"]]
    /\ UNCHANGED <<result_vars, OPTIMIZED_MODE, score_window, history, model_instance, pc,
                   requests, request_vars, score_vars, runs, endpoint_vars>>

\* line 77: s_min = min(_score_window)
CalMin(t) ==
    /\ threads[t].pc = "min"
    /\ threads' = [threads EXCEPT ![t] =
           [@ EXCEPT !.pc = "max", !.s_min = SeqMin(score_window),
                     !.at_min = Len(history)]]
    /\ UNCHANGED <<result_vars, OPTIMIZED_MODE, score_window, history, model_instance, pc,
                   requests, request_vars, score_vars, runs, endpoint_vars>>

\* line 78: s_max = max(_score_window)
CalMax(t) ==
    /\ threads[t].pc = "max"
    /\ threads' = [threads EXCEPT ![t] =
           [@ EXCEPT !.pc = "ret", !.s_max = SeqMax(score_window),
                     !.at_max = Len(history)]]
    /\ UNCHANGED <<result_vars, OPTIMIZED_MODE, score_window, history, model_instance, pc,
                   requests, request_vars, score_vars, runs, endpoint_vars>>

\* lines 79-83: return raw_score when max <= min, the blend otherwise
CalReturn(t) ==
    /\ threads[t].pc = "ret"
    /\ threads' = [threads EXCEPT ![t] =
           [@ EXCEPT !.pc = "done",
                     !.result = IF threads[t].s_max <= threads[t].s_min
                                THEN threads[t].raw_score
                                ELSE CalibrateBlend(threads[t].raw_score,
                                                    threads[t].s_min,
                                                    threads[t].s_max)]]
    /\ UNCHANGED <<result_vars, OPTIMIZED_MODE, score_window, history, model_instance, pc,
                   requests, request_vars, score_vars, runs, endpoint_vars>>

InitConc == Init /\ OPTIMIZED_MODE

NextConc ==
    \E t \in Threads :
        CalAppend(t) \/ CalLen(t) \/ CalMin(t) \/ CalMax(t) \/ CalReturn(t)

SpecConc == InitConc /\ [][NextConc]_vars

\* ------------------------------------------------------------------------
\* embed_sentences called on its own, against the process-wide cache
\* ------------------------------------------------------------------------

\* the longest sentence list embedded
MaxEmbedded == 3

\* the sentences embedded
EmbedCorpus == {"The cat sat.", "However, it rained.", "The cat slept."}

\* every list of 0..MaxEmbedded of these sentences, repeats included
EmbedLists == UNION { [0..(n - 1) -> EmbedCorpus] : n \in 0..MaxEmbedded }

\* the batch_size arguments: None (settings.BATCH_SIZE) and small batches
BatchSizes == {1, 2, BATCH_SIZE}

\* embed_sentences(list, batch_size)
EmbedSentences ==
    \E list \in EmbedLists, batch_size \in BatchSizes :
    \E n \in {ParagraphLen(list)} :
    \E r \in {EmbedSentencesResult(list, n, embedding_cache, batch_size,
                                    OPTIMIZED_MODE)} :
        /\ sentences' = list
        /\ num_sentences' = n
        /\ cached_indices' = cached_embeddings(list, n, embedding_cache)
        /\ embeddings' = r.embeddings
        /\ embedding_cache' = r.cache
        /\ pc' = "embedded"
        /\ UNCHANGED <<result_vars, OPTIMIZED_MODE, score_window, history, model_instance,
                       requests, similarity_threshold, graph,
                       similarity_matrix, entropy_array, score_vars, threads,
                       runs, discourse_markers, texts, response, stages,
                       build_calls>>

NextEmbed == EmbedSentences

SpecEmbed == Init /\ [][NextEmbed]_vars

\* ------------------------------------------------------------------------
\* preprocess_text called on its own
\* ------------------------------------------------------------------------

\* the most pieces a text has
MaxPieces == 3

\* what a text is made of
Pieces == EmbedCorpus \cup Whitespace

\* every text of 0..MaxPieces pieces
Texts == UNION { [1..k -> Pieces] : k \in 0..MaxPieces }

\* preprocess_text(text)
PreprocessText ==
    \E text \in Texts :
    \E r \in {preprocess_text(text)} :
        /\ texts' = <<text>>
        /\ sentences' = r.sentences
        /\ num_sentences' = r.n
        /\ discourse_markers' = r.discourse_markers
        /\ pc' = "preprocessed"
        /\ UNCHANGED <<result_vars, OPTIMIZED_MODE, score_window, history, model_instance,
                       requests, similarity_threshold, graph,
                       similarity_matrix, entropy_array, score_vars, threads,
                       runs, embedding_cache, embeddings, cached_indices,
                       response, stages, build_calls>>

NextText == PreprocessText

SpecText == Init /\ [][NextText]_vars

\* ------------------------------------------------------------------------
\* normalize_text called on its own, then on its own output
\* ------------------------------------------------------------------------

\* the longest raw text
MaxChars == 5

\* the characters of the raw texts: a letter, a space, a no-break space and
\* one mark of each class
Alphabet == {"a", " ", NBSP, ",", "."}

\* every raw text of 0..MaxChars characters
CharTexts == UNION { [1..k -> Alphabet] : k \in 0..MaxChars }

\* normalize_text(text) with its result in normalized
NormalizeCall(text, position) ==
    /\ texts' = <<text>>
    /\ normalized' = normalize_text_chars(text)
    /\ pc' = position
    /\ UNCHANGED <<heuristic_score, OPTIMIZED_MODE, score_window, history,
                   model_instance, requests, request_vars, score_vars, threads,
                   runs, embedding_cache, embeddings, cached_indices,
                   discourse_markers, response, stages, build_calls>>

\* normalize_text on a raw text
NormalizeText ==
    /\ pc = "idle"
    /\ \E text \in CharTexts : NormalizeCall(text, "normalized")

\* normalize_text on the text the last call returned
NormalizeAgain ==
    /\ pc = "normalized"
    /\ NormalizeCall(normalized, "renormalized")

NextNormalize == NormalizeText \/ NormalizeAgain

SpecNormalize == Init /\ [][NextNormalize]_vars

\* ------------------------------------------------------------------------
\* compute_heuristic_score called on matrices and arrays of any floats
\* ------------------------------------------------------------------------

\* the largest matrix
MaxHeuristicNodes == 4

\* the similarity entries: NaN, the infinities, a negative and a positive value
MatrixEntries == {NaN, PosInf, NegInf, Float(-5000), Float(8000)}

\* the entropy entries: NaN, the infinities, a negative value, a value below
\* ln 2 and one above ln(MaxHeuristicNodes + 1)
EntropyEntries == {NaN, PosInf, NegInf, Float(-5000), Float(3000), Float(20000)}

\* the symmetric n x n matrix with 1.0 on the diagonal, a where i + j is odd
\* and b elsewhere
PatternMatrix(n, a, b) ==
    [c \in (0..(n - 1)) \X (0..(n - 1)) |->
        IF c[1] = c[2] THEN Float(SCALE)
        ELSE IF (c[1] + c[2]) % 2 = 1 THEN a ELSE b]

\* the n-entry array with a at the even and b at the odd indices
PatternArray(n, a, b) == [i \in 0..(n - 1) |-> IF i % 2 = 0 THEN a ELSE b]

\* compute_heuristic_score(similarity_matrix, entropy_array)
ComputeHeuristicScore ==
    /\ pc = "idle"
    /\ \E n \in 0..MaxHeuristicNodes, a, b \in MatrixEntries,
          c, e \in EntropyEntries :
           /\ num_sentences' = n
           /\ similarity_matrix' = PatternMatrix(n, a, b)
           /\ entropy_array' = PatternArray(n, c, e)
           /\ heuristic_score' =
                  compute_heuristic_score_floats(PatternMatrix(n, a, b),
                                                 PatternArray(n, c, e), n)
    /\ pc' = "computed"
    /\ UNCHANGED <<normalized, OPTIMIZED_MODE, score_window, history,
                   model_instance, requests, sentences, similarity_threshold,
                   graph, score_vars, threads, runs, endpoint_vars>>

NextHeuristic == ComputeHeuristicScore

SpecHeuristic == Init /\ [][NextHeuristic]_vars

\* ------------------------------------------------------------------------
\* The evaluate and batch_evaluate endpoints of one server process
\* ------------------------------------------------------------------------

\* the most requests the server gets
MaxApiRequests == 2

\* the most texts of a batch
MaxBatch == 2

\* the request texts: empty, whitespace only, one sentence, two sentences,
\* and three sentences of more than SNIPPET_LENGTH characters
ApiTexts ==
    { <<>>, <<Blank1>>, <<Blank10>>, <<"The cat sat.">>,
      <<"The cat sat.", Blank1, "However, it rained.">>,
      <<"However, it rained.", "The cat slept.", "However, it rained.">> }

\* the texts of batch requests: whitespace only, and three sentences of more
\* than SNIPPET_LENGTH characters
BatchTexts ==
    { <<Blank10>>,
      <<"However, it rained.", "The cat slept.", "However, it rained.">> }

\* the batches of 0..MaxBatch texts
Batches == UNION { [1..k -> BatchTexts] : k \in 0..MaxBatch }

\* the process-wide state
ProcessState ==
    [window |-> score_window, history |-> history, model |-> model_instance,
     cache |-> embedding_cache]

\* what a request leaves behind
Respond(ps, batch, reply, ended, calls) ==
    /\ score_window' = ps.window
    /\ history' = ps.history
    /\ model_instance' = ps.model
    /\ embedding_cache' = ps.cache
    /\ texts' = batch
    /\ response' = reply
    /\ stages' = ended
    /\ build_calls' = calls
    /\ requests' = requests + 1
    /\ pc' = "responded"
    /\ UNCHANGED <<result_vars, OPTIMIZED_MODE, request_vars, score_vars, threads, runs,
                   embeddings, cached_indices, discourse_markers>>

\* POST /evaluate: a text shorter than min_length is rejected with 422
\* before the handler runs
EvaluateText ==
    /\ requests < MaxApiRequests
    /\ \E text \in ApiTexts :
           IF TextLen(text) < MIN_LENGTH
           THEN Respond(ProcessState, <<text>>,
                        ErrorResponse("evaluate", 422), <<>>, <<>>)
           ELSE \E run \in PipelineOutcomes(ProcessState, text,
                                            OPTIMIZED_MODE),
                   visualize \in BOOLEAN, viz_ok \in BOOLEAN :
                    Respond(run.ps, <<text>>,
                            RunResponse(run, visualize, viz_ok),
                            <<run.stage>>, run.build_calls)

\* POST /batch_evaluate: an empty list is rejected with 422 (min_items=1)
BatchEvaluate ==
    /\ requests < MaxApiRequests
    /\ \E batch \in Batches :
           IF Len(batch) = 0
           THEN Respond(ProcessState, batch,
                        ErrorResponse("batch_evaluate", 422), <<>>, <<>>)
           ELSE \E out \in BatchOutcomes(ProcessState, batch, Len(batch),
                                          OPTIMIZED_MODE) :
                    Respond(out.ps, batch, BatchResponse(out.results),
                            out.stages, out.build_calls)

NextApi == EvaluateText \/ BatchEvaluate

SpecApi == Init /\ [][NextApi]_vars

\* ------------------------------------------------------------------------
\* Properties
\* ------------------------------------------------------------------------

\* C1: every score returned by score_text / compute_coherence_score lies in
\* [0, 1], whatever the model estimate and the window contents
ScoreInUnitInterval ==
    pc = "scored" => (0 <= coherence_score /\ coherence_score <= SCALE)

\* the last scoring call had no usable model estimate
OracleAbsent == pc = "scored" /\ model_score.kind # "val"

\* C2 as stated: when the Model Oracle raises or returns NaN or an infinity,
\* the returned score is exactly the heuristic score
FallbackEqualsHeuristic == OracleAbsent => coherence_score = HeuristicOf

\* C2 amended: without a usable estimate the returned score is the heuristic
\* score passed through calibration: the heuristic itself in baseline mode and
\* while the window (with this score) has fewer than 5 samples or max = min,
\* and 0.7 * h + 0.3 * (h - min) / (max - min) over that window otherwise
FallbackIsCalibratedHeuristic ==
    OracleAbsent =>
        LET h == HeuristicOf
            lo == SeqMin(score_window)
            hi == SeqMax(score_window)
        IN  coherence_score =
                IF ~OPTIMIZED_MODE THEN h
                ELSE IF Len(score_window) < 5 THEN h
                ELSE IF hi <= lo THEN h
                ELSE Mul(7000, h) + Mul(3000, Quot(h - lo, hi - lo))

\* C2 witness: a fallback score that calibration moved off the heuristic
FallbackCalibrated ==
    /\ OracleAbsent
    /\ OPTIMIZED_MODE
    /\ Len(score_window) >= 5
    /\ coherence_score # HeuristicOf

\* C3: _calibrate_score returns a value in [0, 1] for the score just pushed,
\* whatever earlier requests left in the window
CalibrateInUnitInterval ==
    history # <<>> =>
        LET r == CalibrateResult(score_window, history[Len(history)])
        IN  0 <= r /\ r <= SCALE

\* the last k entries of h
Recent(h, k) == SubSeq(h, Len(h) - k + 1, Len(h))

\* C4: the window holds at most 100 entries and they are the most recent raw
\* scores in arrival order
WindowIsRecentRaw ==
    /\ Len(score_window) <= 100
    /\ score_window = Recent(history, Min2(Len(history), 100))

\* C4 witness: more than 100 scores were pushed and the oldest one is gone
WindowEvicted ==
    /\ Len(history) > 100
    /\ score_window[1] # history[1]

\* C5: a thread's append, min read and max read see one window state that
\* contains its own score, and the window stays within its capacity
CalibrateAtomic ==
    /\ Len(score_window) <= WINDOW_MAXLEN
    /\ \A t \in Threads :
           threads[t].pc = "ret" =>
               /\ threads[t].at_min = threads[t].at_append
               /\ threads[t].at_max = threads[t].at_append
               /\ threads[t].s_min <= threads[t].raw_score
               /\ threads[t].raw_score <= threads[t].s_max

\* the node indices of the current request
Nodes == 0..(num_sentences - 1)

\* C6: the similarity matrix is N x N, symmetric, with 1.0 on the diagonal
SimilaritySymmetricUnitDiagonal ==
    pc # "idle" =>
        /\ DOMAIN similarity_matrix = Nodes \X Nodes
        /\ \A i, j \in Nodes :
               similarity_matrix[<<i, j>>] = similarity_matrix[<<j, i>>]
        /\ \A i \in Nodes : similarity_matrix[<<i, i>>] = SCALE

\* C6 witness: a matrix of three or more sentences with a non-trivial entry
SimilarityBuilt ==
    /\ pc = "built"
    /\ num_sentences >= 3
    /\ \E i, j \in Nodes :
           i # j /\ similarity_matrix[<<i, j>>] \notin {0, SCALE}

\* C7: one sentence gives a one-node graph without edges, the matrix [[1.0]],
\* the entropy [0.0] and an empty disruption report
SingleSentenceResult ==
    (pc # "idle" /\ num_sentences = 1) =>
        /\ DOMAIN graph.x = {0}
        /\ graph.edge_index = <<>>
        /\ graph.edge_attr = <<>>
        /\ DOMAIN similarity_matrix = {<<0, 0>>}
        /\ similarity_matrix[<<0, 0>>] = SCALE
        /\ DOMAIN entropy_array = {0}
        /\ entropy_array[0] = 0
        /\ (pc \in {"ranked", "scored"} => disruption_report = <<>>)

\* C7 witness: a one-sentence result was ranked with a positive top_k
SingleSentenceRanked ==
    pc = "ranked" /\ num_sentences = 1 /\ top_k > 0

\* no pair of the current request reaches the similarity threshold
NoPairAbove ==
    \A i, j \in Nodes :
        i < j => similarity_matrix[<<i, j>>] < similarity_threshold

\* the directed arcs of the current graph
ArcSet == {graph.edge_index[k] : k \in 1..Len(graph.edge_index)}

\* C8: for N > 1 the graph has at least one edge, and when no pair reaches
\* the threshold its edges are exactly the N-1 consecutive-index pairs
FallbackPath ==
    (pc # "idle" /\ num_sentences > 1) =>
        /\ Len(graph.edge_index) > 0
        /\ NoPairAbove =>
               /\ Len(graph.edge_index) = 2 * (num_sentences - 1)
               /\ ArcSet = {<<i, i + 1>> : i \in 0..(num_sentences - 2)}
                             \cup {<<i + 1, i>> : i \in 0..(num_sentences - 2)}

\* C8 witness: three or more sentences with every pair below the threshold
FallbackUsed ==
    pc = "built" /\ num_sentences >= 3 /\ NoPairAbove

\* the disruption metric of a report record's pair
RecordMetric(rec) ==
    DisruptionScore(similarity_matrix, entropy_array, rec.from_idx, rec.to_idx)

\* C9: the report holds min(K, N(N-1)/2) records over distinct pairs i < j,
\* in non-increasing order of the disruption metric, no omitted pair ranks
\* strictly above a reported one, and each score field is the pair's
\* similarity-matrix entry
DisruptionReportRanked ==
    pc \in {"ranked", "scored"} =>
        LET R == disruption_report
            reported == {<<R[k].from_idx, R[k].to_idx>> : k \in 1..Len(R)}
        IN  /\ Len(R) = Min2(top_k, (num_sentences * (num_sentences - 1)) \div 2)
            /\ Cardinality(reported) = Len(R)
            /\ \A k \in 1..Len(R) :
                   /\ R[k].from_idx \in Nodes
                   /\ R[k].to_idx \in Nodes
                   /\ R[k].from_idx < R[k].to_idx
                   /\ R[k].score =
                          similarity_matrix[<<R[k].from_idx, R[k].to_idx>>]
            /\ \A k, l \in 1..Len(R) :
                   k < l => RecordMetric(R[k]) >= RecordMetric(R[l])
            /\ \A i, j \in Nodes :
                   (i < j /\ <<i, j>> \notin reported) =>
                       \A k \in 1..Len(R) :
                           DisruptionScore(similarity_matrix, entropy_array,
                                           i, j) <= RecordMetric(R[k])

\* C9 witness: a report cut off by top_k whose first two records differ in
\* the metric and whose score field is not the metric
ReportTruncated ==
    /\ pc = "ranked"
    /\ Len(disruption_report) >= 2
    /\ Len(disruption_report) < (num_sentences * (num_sentences - 1)) \div 2
    /\ RecordMetric(disruption_report[1]) > RecordMetric(disruption_report[2])
    /\ disruption_report[1].score # RecordMetric(disruption_report[1])

\* the three sentences with markers [[], ["however"], []] and similarities
\* (0,1) = 0.2, (0,2) = 0.6, (1,2) = 0.25
ScenarioParagraph ==
    [i \in 0..2 |-> CASE i = 0 -> "The cat sat."
                      [] i = 1 -> "However, it rained."
                      [] OTHER -> "The cat slept."]

\* the scenario was built and ranked with at least one record asked for
ScenarioRanked ==
    pc = "ranked" /\ sentences = ScenarioParagraph /\ top_k >= 1

\* C10 as stated: the first record of the scenario's report is the pair
\* (0,1) with the abrupt-transition reason and score 0.2
ScenarioReportsPair01First ==
    ScenarioRanked =>
        disruption_report[1] =
            [from_idx |-> 0, to_idx |-> 1,
             reason |-> "Abrupt topic transition", score |-> 2000]

\* C10 amended: in enhanced mode the first record is the pair (1,2) with the
\* abrupt-transition reason and score 0.25, and the pair (0,1) comes second;
\* in baseline mode the first record is the pair (0,1) with score 0.2
ScenarioFirstRecord ==
    ScenarioRanked =>
        IF OPTIMIZED_MODE
        THEN /\ disruption_report[1] =
                    [from_idx |-> 1, to_idx |-> 2,
                     reason |-> "Abrupt topic transition", score |-> 2500]
             /\ top_k >= 2 =>
                    disruption_report[2] =
                        [from_idx |-> 0, to_idx |-> 1,
                         reason |-> "Abrupt topic transition", score |-> 2000]
        ELSE disruption_report[1] =
                 [from_idx |-> 0, to_idx |-> 1,
                  reason |-> "Abrupt topic transition", score |-> 2000]

\* C10 witness: the scenario ranked in enhanced mode, with the stated markers
\* and similarities
ScenarioEnhancedRanked ==
    /\ ScenarioRanked
    /\ OPTIMIZED_MODE
    /\ top_k >= 2
    /\ MarkersOf(sentences, 3) = [i \in 0..2 |-> IF i = 1 THEN {"however"} ELSE {}]
    /\ similarity_matrix[<<0, 1>>] = 2000
    /\ similarity_matrix[<<0, 2>>] = 6000
    /\ similarity_matrix[<<1, 2>>] = 2500


\* the undirected pairs of the current graph, one per two arcs, in list order
EdgePairs ==
    [k \in 1..(Len(graph.edge_index) \div 2) |-> graph.edge_index[2 * k - 1]]

\* sentence i or sentence j of the current request carries a marker
Marked(i, j) ==
    \/ detect_discourse_markers(sentences[i]) # {}
    \/ detect_discourse_markers(sentences[j]) # {}

\* the blend of the pair (i, j) plus the boost exactly when the pair is marked
BoostedWeight(i, j, continuity, syntactic) ==
    Mul(ALPHA, similarity_matrix[<<i, j>>])
        + Mul(BETA, Div(continuity[i] + continuity[j], 2))
        + Mul(GAMMA, SCALE - Abs(syntactic[i] - syntactic[j]))
        + (IF Marked(i, j) THEN DEFAULT_BOOST ELSE 0)

\* the boosted weight of every edge of the graph, with parser availability sp
BoostedWeights(sp) ==
    [k \in 1..Len(EdgePairs) |->
        BoostedWeight(EdgePairs[k][1], EdgePairs[k][2],
                      detect_connective_continuity(sentences, num_sentences),
                      compute_syntactic_features(sentences, num_sentences, sp))]

\* the plain similarity of every edge of the graph
PlainWeights ==
    [k \in 1..Len(EdgePairs) |-> similarity_matrix[EdgePairs[k]]]

\* every off-diagonal matrix entry is the cosine similarity of the embeddings
RawCosine ==
    \A i, j \in Nodes :
        i # j => similarity_matrix[<<i, j>>] =
                     cosine_similarity(embed(sentences[i]), embed(sentences[j]))

\* a graph of two or more sentences was built in enhanced mode
EnhancedGraph ==
    OPTIMIZED_MODE /\ pc \in {"built", "ranked"} /\ num_sentences > 1

\* C11 as stated: in enhanced mode every edge weight is the blend plus the
\* boost exactly when one of its sentences carries a marker (then capped), and
\* the matrix entries stay the raw cosine similarities
BoostOnEveryEdge ==
    EnhancedGraph =>
        /\ RawCosine
        /\ \E sp \in BOOLEAN :
               graph.edge_attr = ClipWeights(Twice(BoostedWeights(sp)))

\* C11 amended: that holds for the edges of pairs at or above the threshold;
\* the edges of the fallback path carry the plain similarity, marked or not
BoostOnThresholdEdges ==
    EnhancedGraph =>
        /\ RawCosine
        /\ IF NoPairAbove
           THEN graph.edge_attr = ClipWeights(Twice(PlainWeights))
           ELSE \E sp \in BOOLEAN :
                    graph.edge_attr = ClipWeights(Twice(BoostedWeights(sp)))

\* C11 witness: an enhanced graph with a marked and an unmarked edge whose
\* boosted weight differs from the matrix entry
BoostedEdgeBuilt ==
    /\ EnhancedGraph
    /\ ~NoPairAbove
    /\ \E k, l \in 1..Len(EdgePairs) :
           /\ Marked(EdgePairs[k][1], EdgePairs[k][2])
           /\ ~Marked(EdgePairs[l][1], EdgePairs[l][2])
           /\ graph.edge_attr[2 * k] # similarity_matrix[EdgePairs[k]]

\* C12: build_graph on an empty sentence list raises and assigns no graph,
\* similarity matrix or entropy array; it raises for no other list
EmptyListRaises ==
    /\ (pc # "idle" /\ num_sentences = 0) => pc = "raised"
    /\ pc = "raised" =>
           /\ num_sentences = 0
           /\ graph = NoGraph
           /\ similarity_matrix = <<>>
           /\ entropy_array = <<>>

\* C12 witness: build_graph was called with an empty list and raised
EmptyListBuilt ==
    pc = "raised" /\ sentences = <<>>

ScoreTextKeepsModel ==
    [][(pc = "built" /\ pc' = "scored") => model_instance' = model_instance]_vars

\* C20 as stated: in every built graph each node's feature vector has length
\* D + 1, the node's embedding followed by its entropy value
NodeFeaturesHaveEntropy ==
    pc \in {"built", "ranked"} =>
        \A i \in Nodes :
            /\ Len(graph.x[i]) = EMBED_DIM + 1
            /\ SubSeq(graph.x[i], 1, EMBED_DIM) = embed(sentences[i])
            /\ graph.x[i][EMBED_DIM + 1] = entropy_array[i]

\* the embedding of one sentence: the encoder's output as float16,
\* renormalised in optimized mode
EmbeddingOf(s) ==
    IF OPTIMIZED_MODE THEN L2Normalise(batch_embeddings(<<s>>)[1])
    ELSE batch_embeddings(<<s>>)[1]

\* C19: for a non-empty list embed_sentences returns one row per sentence
\* and row i is the embedding of sentence i, whichever sentences were cached
EmbeddingRows ==
    (pc = "embedded" /\ num_sentences >= 1) =>
        /\ DOMAIN embeddings = 0..(num_sentences - 1)
        /\ \A i \in 0..(num_sentences - 1) :
               embeddings[i] = EmbeddingOf(sentences[i])

\* C19 witness: a call of three sentences whose middle one was cached and
\* whose first and last are the same uncached sentence
MixedCacheCall ==
    /\ pc = "embedded"
    /\ num_sentences = 3
    /\ cached_indices = {1}
    /\ sentences[0] = sentences[2]

\* C18: preprocess_text returns two sequences of equal length, and the
\* marker list at index i is the detection result for the sentence at index i
MarkersParallel ==
    pc = "preprocessed" =>
        /\ DOMAIN sentences = 0..(num_sentences - 1)
        /\ DOMAIN discourse_markers = DOMAIN sentences
        /\ \A i \in DOMAIN sentences :
               discourse_markers[i] = detect_discourse_markers(sentences[i])

\* C18 witness: a text with whitespace before a sentence that carries a
\* marker, after a sentence that carries none
MarkedTextPreprocessed ==
    /\ pc = "preprocessed"
    /\ Len(texts[1]) = 3
    /\ texts[1][2] \in Whitespace
    /\ num_sentences = 2
    /\ discourse_markers[0] = {}
    /\ discourse_markers[1] = {"however"}

\* the batch request that was answered by the handler
BatchAnswered ==
    pc = "responded" /\ response.endpoint = "batch_evaluate" /\ Len(texts) > 0

\* C15: batch_evaluate answers with exactly one item per input text, in
\* input order, and total_processed is the number of texts; the item of a
\* text without a sentence, or of a text whose run raised, has score 0.0
\* and percent 0
BatchOneItemPerText ==
    BatchAnswered =>
        /\ response.status = 200
        /\ Len(response.results) = Len(texts)
        /\ response.total_processed = Len(texts)
        /\ Len(stages) = Len(texts)
        /\ \A i \in 1..Len(texts) :
               /\ response.results[i].text = Snippet(texts[i])
               /\ Len(normalize_text(texts[i])) = 0 => stages[i] = "too_few"
               /\ stages[i] # "scored" =>
                      /\ response.results[i].coherence_score = 0
                      /\ response.results[i].coherence_percent = 0

\* C15 witness: a batch of two texts whose first has no sentence and whose
\* second was scored above zero
BatchWithEmptyText ==
    /\ BatchAnswered
    /\ stages = <<"too_few", "scored">>
    /\ response.results[2].coherence_percent > 0

\* C15 witness: a batch whose first text raised while it was embedded and
\* whose second text was scored
BatchWithRaisingText ==
    /\ BatchAnswered
    /\ stages = <<"embed_failed", "scored">>

\* the evaluate request that was answered with 200
EvaluateSucceeded ==
    pc = "responded" /\ response.endpoint = "evaluate" /\ response.status = 200

\* C16: a 200 response of evaluate carries a score in [0, 1] and a percent
\* in 0..100 that is the integer part of 100 times the score
PercentIsTruncatedScore ==
    EvaluateSucceeded =>
        /\ response.coherence_score >= 0
        /\ response.coherence_score <= SCALE
        /\ response.coherence_percent \in 0..100
        /\ response.coherence_percent * SCALE <= 100 * response.coherence_score
        /\ 100 * response.coherence_score
               < (response.coherence_percent + 1) * SCALE

\* C16 witness: a 200 response whose score times 100 has a fractional part
\* of one half or more
ScoreWithLargeFraction ==
    /\ EvaluateSucceeded
    /\ 2 * ((100 * response.coherence_score) % SCALE) >= SCALE

\* the evaluate request whose text is empty or has no sentence
EvaluateWithoutSentence ==
    /\ pc = "responded"
    /\ response.endpoint = "evaluate"
    /\ Len(normalize_text(texts[1])) = 0

\* C17: an evaluate request whose text is empty or has no sentence is
\* answered with 400 or 422, and build_graph is not called with an empty
\* sentence list
NoSentenceRejected ==
    /\ EvaluateWithoutSentence =>
           /\ response.status \in {400, 422}
           /\ build_calls = <<>>
    /\ (pc = "responded" /\ response.endpoint = "evaluate") =>
           \A k \in 1..Len(build_calls) : build_calls[k] >= 1

\* C17 witness: a whitespace-only text long enough to reach the handler was
\* answered with 400
WhitespaceTextRejected ==
    /\ EvaluateWithoutSentence
    /\ TextLen(texts[1]) >= MIN_LENGTH
    /\ response.status = 400

\* C21 as stated: with the default threshold every edge weight of a built
\* graph is non-negative, on threshold-selected edges and on the fallback
\* path alike
EdgeWeightsNonNegative ==
    (pc \in {"built", "ranked"} /\ similarity_threshold = DEFAULT_THRESHOLD) =>
        \A k \in 1..Len(graph.edge_attr) : graph.edge_attr[k] >= 0

\* C22 as stated: in enhanced mode every entry of the returned entropy array
\* lies in [0, 1]; equal per-node entropies all become 0, and otherwise the
\* smallest entry is 0 and the largest is 1
EntropyRescaledToUnit ==
    (pc \in {"built", "ranked"} /\ OPTIMIZED_MODE) =>
        /\ \A i \in Nodes : entropy_array[i] >= 0 /\ entropy_array[i] <= SCALE
        /\ IF \A i, j \in Nodes : entropy_array[i] = entropy_array[j]
           THEN \A i \in Nodes : entropy_array[i] = 0
           ELSE /\ \E i \in Nodes : entropy_array[i] = 0
                /\ \E i \in Nodes : entropy_array[i] = SCALE

\* C29 as stated: whenever predict builds the shared model, the model's input
\* dimension is the node-feature width of the graph it is then run on
ModelBuiltForGraphWidth ==
    [][(pc = "built" /\ ~model_instance.initialized
            /\ model_instance'.initialized) =>
           model_instance'.input_dim = FeatureWidth(graph)]_vars

\* C23: _calibrate_score returns the pushed score unchanged while the window,
\* the pushed score included, holds fewer than 5 samples (so for the first
\* four scores of a process) or has max = min, and
\* 0.7 * score + 0.3 * (score - min) / (max - min) over that window otherwise
CalibrateByWindow ==
    (pc = "scored" /\ OPTIMIZED_MODE) =>
        LET score == history[Len(history)]
            lo == SeqMin(score_window)
            hi == SeqMax(score_window)
        IN  /\ score_window[Len(score_window)] = score
            /\ Len(history) <= 4 => coherence_score = score
            /\ (Len(score_window) < 5 \/ hi = lo) => coherence_score = score
            /\ (Len(score_window) >= 5 /\ hi # lo) =>
                   coherence_score =
                       Div(7000 * score, SCALE)
                       + Div(3000 * Quot(score - lo, hi - lo), SCALE)

\* C23 witness: a score above the window's min that was rescaled against a
\* window of five or more samples with max > min
ScoreRescaled ==
    /\ pc = "scored"
    /\ OPTIMIZED_MODE
    /\ Len(score_window) >= 5
    /\ SeqMax(score_window) > SeqMin(score_window)
    /\ coherence_score # history[Len(history)]
    /\ history[Len(history)] # SeqMin(score_window)

\* C30: from a fresh window, every repetition of compute_coherence_score on
\* the same similarity matrix, entropy array and model estimate returns the
\* score the call before it returned
RepeatedScoreStable ==
    [][(pc = "built" /\ pc' = "scored" /\ requests >= 1) =>
           coherence_score' = coherence_score]_vars

\* C30 witness: a multi-sentence request with a model estimate scored six
\* times or more in enhanced mode, the window holding every one of its scores
RepeatedPastMinSamples ==
    /\ pc = "scored"
    /\ OPTIMIZED_MODE
    /\ requests >= 6
    /\ Len(score_window) = requests
    /\ num_sentences >= 2
    /\ model_score.kind = "val"

\* the similarity of the pair a report record is about
RecordSimilarity(rec) == similarity_matrix[<<rec.from_idx, rec.to_idx>>]

\* C25: every record of the report carries the abrupt-transition reason when
\* its pair's similarity is below 0.3, the semantic-drift reason when it is
\* at least 0.3 and below 0.5, and the weak-linkage reason from 0.5 on
ReasonMatchesSimilarity ==
    pc = "ranked" =>
        \A k \in 1..Len(disruption_report) :
            LET rec == disruption_report[k]
            IN  /\ RecordSimilarity(rec) < 3000 =>
                       rec.reason = "Abrupt topic transition"
                /\ (RecordSimilarity(rec) >= 3000
                        /\ RecordSimilarity(rec) < 5000) =>
                       rec.reason = "Semantic drift"
                /\ RecordSimilarity(rec) >= 5000 =>
                       rec.reason = "Weak discourse linkage"

\* C25 witness: one report with a pair below 0.3, a pair between 0.3 and 0.5
\* and a pair above 0.5
ReportWithEveryReason ==
    /\ pc = "ranked"
    /\ \E k, l, m \in 1..Len(disruption_report) :
           /\ RecordSimilarity(disruption_report[k]) < 3000
           /\ RecordSimilarity(disruption_report[l]) > 3000
           /\ RecordSimilarity(disruption_report[l]) < 5000
           /\ RecordSimilarity(disruption_report[m]) > 5000

\* the weight list of the current graph before the cap, one entry per arc: the
\* plain similarities on the fallback path and in baseline mode, the blend
\* otherwise
UncappedWeights ==
    Twice(IF OPTIMIZED_MODE /\ ~NoPairAbove THEN BoostedWeights(FALSE)
          ELSE PlainWeights)

\* mean + 3 * stddev of a weight list
ThreeSigmaCap(ws) == Div(SeqSum(ws), Len(ws)) + 3 * StdDev(ws)

\* C26: in a graph with at least one edge every weight is at most
\* mean + 3 * stddev of the uncapped weight list, a weight at or below that
\* cap is unchanged, and the two arcs of an edge have equal weights
WeightsCapped ==
    (pc \in {"built", "ranked"} /\ Len(graph.edge_attr) >= 1) =>
        \A uncapped \in {UncappedWeights} :
        \A cap \in {ThreeSigmaCap(uncapped)} :
            /\ Len(graph.edge_attr) = Len(uncapped)
            /\ \A k \in 1..Len(graph.edge_attr) :
                   /\ graph.edge_attr[k] <= cap
                   /\ uncapped[k] <= cap => graph.edge_attr[k] = uncapped[k]
            /\ \A k \in 1..Len(EdgePairs) :
                   graph.edge_attr[2 * k - 1] = graph.edge_attr[2 * k]

\* C26 witness: an enhanced-mode graph in which the cap lowered the weight of
\* one edge and left another as it was
WeightLowered ==
    /\ pc = "built"
    /\ OPTIMIZED_MODE
    /\ \E k, l \in 1..Len(graph.edge_attr) :
           /\ graph.edge_attr[k] < UncappedWeights[k]
           /\ graph.edge_attr[k] = ThreeSigmaCap(UncappedWeights)
           /\ graph.edge_attr[l] = UncappedWeights[l]

\* a graph was built in baseline mode
BaselineGraph == ~OPTIMIZED_MODE /\ pc \in {"built", "ranked"}

NormalizedSpacing ==
    /\ pc \in {"normalized", "renormalized"} =>
           /\ normalized # <<>> =>
                  /\ normalized[1] # " "
                  /\ normalized[Len(normalized)] # " "
           /\ \A k \in 1..(Len(normalized) - 1) :
                  /\ ~(normalized[k] = " " /\ normalized[k + 1] = " ")
                  /\ normalized[k] \in ClauseMarks \cup StopMarks =>
                         normalized[k + 1] = " "
    /\ pc = "renormalized" => normalized = texts[1]

\* the mean of the off-diagonal entries and of the entropy entries of the
\* last compute_heuristic_score call
OffDiagonalMean == FloatMean(OffDiagonal(similarity_matrix, num_sentences))

EntropyMean == FloatMean([k \in 1..num_sentences |-> entropy_array[k - 1]])

\* C24: compute_heuristic_score returns a finite value in [0, 1] whatever the
\* entries are; with finite or NaN means it is the clamped blend of the
\* average similarity, 0.5 for one sentence or a NaN mean, and the mean
\* entropy, 0.0 for a NaN or negative mean
HeuristicFiniteInUnit ==
    pc = "computed" =>
        /\ heuristic_score.kind = "val"
        /\ heuristic_score.v >= 0
        /\ heuristic_score.v <= SCALE
        /\ (/\ num_sentences >= 1
            /\ num_sentences >= 2 => OffDiagonalMean.kind \in {"val", "nan"}
            /\ EntropyMean.kind \in {"val", "nan"}) =>
               LET avg_similarity ==
                       IF num_sentences = 1 \/ OffDiagonalMean.kind = "nan"
                       THEN 5000 ELSE OffDiagonalMean.v
                   avg_entropy ==
                       IF EntropyMean.kind = "nan" \/ EntropyMean.v < 0
                       THEN 0 ELSE EntropyMean.v
                   normalized_entropy ==
                       Quot(avg_entropy, Ln((num_sentences + 1) * SCALE))
               IN  heuristic_score.v =
                       Clamp01(Div(7000 * avg_similarity, SCALE)
                               + Div(3000 * (SCALE - Min2(normalized_entropy,
                                                          SCALE)), SCALE))

\* C24 witness: a matrix with a NaN and a negative entry scored with an
\* entropy array of negative mean
NanMatrixScored ==
    /\ pc = "computed"
    /\ num_sentences >= 3
    /\ \E i, j \in Nodes : similarity_matrix[<<i, j>>].kind = "nan"
    /\ \E i, j \in Nodes : /\ similarity_matrix[<<i, j>>].kind = "val"
                           /\ similarity_matrix[<<i, j>>].v < 0
    /\ EntropyMean.kind = "val"
    /\ EntropyMean.v < 0
    /\ heuristic_score = Float(6500)
====
